---- MODULE Spec2Model ----
(***************************************************************************)
(* The session manager of kate_bot (src/src/bin/kate_bot/game.rs): the     *)
(* registry of control channels, the session task spawned by start_game,   *)
(* the round controller (Menu) and the routing of component interactions.  *)
(*                                                                         *)
(* A string is a sequence of one-character strings.  A u64 value is a      *)
(* natural number.  An Option is a record with a field "some".             *)
(***************************************************************************)
EXTENDS Integers, Sequences, FiniteSets, TLC

(***************************************************************************)
(* Bounds of the model.                                                    *)
(***************************************************************************)
\* session tasks ever spawned in a run
MaxTasks == 2
\* entries in a sampled pool
MaxPool == 2
\* start_game calls between their existence check and their insert
MaxInflight == 2
\* senders waiting for capacity on one control channel
MaxWaiters == 1
\* messages of any kind pending on one control channel
MaxVaried == 2
\* shards of the registry
NumShards == 2
\* the 120 s of the receive timeout, in ticks of the clock
WindowTicks == 2

\* presses of the submit button of one create-game form
MaxPresses == 3

\* calls of add_level, direct or for an entry of a JLPT list, in one merge
MaxCalls == 3

(***************************************************************************)
(* Program constants.                                                      *)
(***************************************************************************)
\* mpsc::channel(10)
ChannelCap == 10
\* options: [String; 5]
NumOptions == 5

\* the session keys (guild or user ids) of the model
Keys == {1, 12}

Tasks == 1..MaxTasks
Shards == 1..NumShards

(***************************************************************************)
(* Strings.                                                                *)
(***************************************************************************)
DigitChars == <<"0", "1", "2", "3", "4", "5", "6", "7", "8", "9">>

AsciiDigits == {DigitChars[i] : i \in 1..10}

\* "D" stands for a decimal digit outside ASCII, which the regex class \d
\* (Unicode aware in the regex crate) also matches
DecimalDigits == AsciiDigits \cup {"D"}

DigitVal(c) == (CHOOSE i \in 1..10 : DigitChars[i] = c) - 1

RECURSIVE FmtNat(_)
\* format!("{n}") of an unsigned integer
FmtNat(n) ==
    IF n < 10 THEN <<DigitChars[n + 1]>>
    ELSE FmtNat(n \div 10) \o <<DigitChars[(n % 10) + 1]>>

\* u64::MAX = 18446744073709551615, as its decimal digits
U64MaxDigits == <<1, 8, 4, 4, 6, 7, 4, 4, 0, 7, 3, 7, 0, 9, 5, 5, 1, 6, 1, 5>>

None == [some |-> FALSE, val |-> 0]
Some(v) == [some |-> TRUE, val |-> v]

RECURSIVE StripZeros(_)
StripZeros(s) ==
    IF Len(s) > 1 /\ s[1] = "0" THEN StripZeros(Tail(s)) ELSE s

RECURSIVE DigitsLeq(_, _)
\* a <= b for two digit strings of the same length
DigitsLeq(a, b) ==
    IF a = <<>> THEN TRUE
    ELSE IF DigitVal(a[1]) < b[1] THEN TRUE
    ELSE IF DigitVal(a[1]) > b[1] THEN FALSE
    ELSE DigitsLeq(Tail(a), Tail(b))

RECURSIVE Horner(_, _)
Horner(s, acc) ==
    IF s = <<>> THEN acc ELSE Horner(Tail(s), acc * 10 + DigitVal(s[1]))

\* str::parse::<u64>: every character an ASCII digit and the value at most
\* u64::MAX.  A value of more than 9 significant digits is beyond the
\* integers of the model and is no key of it: it is
\* reported as -1, which no registry lookup finds.
ParseU64(s) ==
    IF s = <<>> \/ \E i \in 1..Len(s) : s[i] \notin AsciiDigits THEN None
    ELSE LET z == StripZeros(s) IN
         IF Len(z) > Len(U64MaxDigits) THEN None
         ELSE IF Len(z) = Len(U64MaxDigits) /\ ~DigitsLeq(z, U64MaxDigits) THEN None
         ELSE IF Len(z) > 9 THEN Some(-1)
         ELSE Some(Horner(z, 0))

RECURSIVE LeadingDigits(_)
\* the match of the regex ^\d+ (the empty string when there is none)
LeadingDigits(s) ==
    IF s = <<>> \/ s[1] \notin DecimalDigits THEN <<>>
    ELSE <<s[1]>> \o LeadingDigits(Tail(s))

\* a variant that reads the first digit only
parse_session_id_first(interaction_id) ==
    IF interaction_id = <<>> \/ interaction_id[1] \notin DecimalDigits THEN None
    ELSE ParseU64(<<interaction_id[1]>>)

\* Extracts game session_id from interaction's custom_id.
parse_session_id(interaction_id) ==
    LET run == LeadingDigits(interaction_id) IN
    IF run = <<>> THEN None ELSE ParseU64(run)

\* the first comma of a string (0 when it has none)
FirstComma(s) ==
    IF \E i \in 1..Len(s) : s[i] = ","
    THEN CHOOSE i \in 1..Len(s) : s[i] = "," /\ \A j \in 1..(i - 1) : s[j] # ","
    ELSE 0

\* a variant that splits at the first comma
parse_custom_id_first_comma(custom_id) ==
    LET c == FirstComma(custom_id)
        n == Len(custom_id)
    IN IF c > 0 /\ n = c + 1 /\ custom_id[n] \in {"0", "1", "2", "3", "4"}
       THEN Some([menu_id |-> SubSeq(custom_id, 1, c - 1), choice |-> DigitVal(custom_id[n])])
       ELSE None

\* Parses a component's custom_id for its menu_id and the user's button
\* choice: the regex ^(.*),([0-4])$ , where . matches no line feed.
parse_custom_id(custom_id) ==
    LET n == Len(custom_id) IN
    IF /\ n >= 2
       /\ custom_id[n] \in {"0", "1", "2", "3", "4"}
       /\ custom_id[n - 1] = ","
       /\ \A i \in 1..(n - 2) : custom_id[i] # "\n"
    THEN Some([menu_id |-> SubSeq(custom_id, 1, n - 2),
               choice |-> DigitVal(custom_id[n])])
    ELSE None

\* a variant that draws one identifier for all rounds of a task
UuidTextOfTask(t, r) == FmtNat(t) \o <<"a", "-">> \o FmtNat(1)

\* Uuid::new_v4() as text: the r-th identifier task t draws.  Identifiers
\* are fresh; a real one may start and end with a digit and holds no comma.
UuidText(t, r) == FmtNat(t) \o <<"a", "-">> \o FmtNat(r)

\* format!("{session_id},{}", Uuid::new_v4())
MenuId(session_id, t, r) == FmtNat(session_id) \o <<",">> \o UuidText(t, r)

\* format!("{id},{i}")
ComponentId(id, i) == id \o <<",">> \o FmtNat(i)

(***************************************************************************)
(* Questions and menus.                                                    *)
(***************************************************************************)
\* the slot the target was written to before the shuffle
PositionBeforeShuffle(options, target) == 0

\* options.iter().position(|o| target == *o).unwrap(), counted from 0
Position(options, target) ==
    (CHOOSE i \in 1..Len(options) :
        /\ options[i] = target
        /\ \A j \in 1..(i - 1) : options[j] # target) - 1

\* Question { prompt, options, answer }: the shuffled options and the index
\* found for the target text (the prompt plays no part in a session)
MakeQuestion(options, target) ==
    [options |-> options, answer |-> Position(options, target)]

\* the parts of speech (enum Pos) the model uses
PosTags == {"N", "V1"}

\* slice::shuffle: any rearrangement
shuffle(s, perm) == [i \in 1..Len(s) |-> s[perm[i]]]

\* pos.shuffle(&mut rng()): the orders the tags can be tried in
Orders(pos) == {shuffle(pos, perm) : perm \in Permutations(1..Len(pos))}

\* a variant that tries the first item only
find_map_first(results) == results[1]

\* find_map, given what the closure returns for each item in turn: the
\* first Some, None when there is none
find_map(results) ==
    IF \E i \in 1..Len(results) : results[i].some
    THEN results[CHOOSE i \in 1..Len(results) :
                     results[i].some /\ \A j \in 1..(i - 1) : ~results[j].some]
    ELSE None

\* Two questions Question::new returns in the sessions of the model.  Option
\* values come from different entries and may repeat: in the second question
\* another option carries the text of the answer.
PlainQuestion == MakeQuestion(<<"ka", "ki", "ku", "ke", "ko">>, "ku")
RepeatQuestion == MakeQuestion(<<"ki", "ka", "ku", "ka", "ke">>, "ka")

\* Sampled entries of a session, each given by what Question::new returns
\* for it under each tag: no pair under any tag; a pair as a verb only; a
\* pair under both tags; a pair as a noun only.
Unbuildable == [p \in PosTags |-> None]
VerbOnly == [p \in PosTags |-> IF p = "V1" THEN Some(RepeatQuestion) ELSE None]
NounAndVerb == [p \in PosTags |-> IF p = "N" THEN Some(PlainQuestion) ELSE Some(RepeatQuestion)]
NounOnly == [p \in PosTags |-> IF p = "N" THEN Some(PlainQuestion) ELSE None]

NoMenu == [id |-> <<>>, options |-> <<>>, answer |-> 0, disabled |-> <<>>]

\* Menu::new: one QuestionComponent per option, none disabled
Menu_new(id, question) ==
    [id |-> id,
     options |-> question.options,
     answer |-> question.answer,
     disabled |-> [i \in 1..NumOptions |-> FALSE]]

\* QuestionComponent.id of option i (counted from 0)
QuestionId(m, i) == ComponentId(m.id, i)

\* Menu::answer_id
answer_id(m) == QuestionId(m, m.answer)

\* a variant that compares the option texts
CorrectByText(m, choice) == m.options[choice + 1] = m.options[m.answer + 1]

\* let correct = self.questions[choice].id == self.answer_id();
Correct(m, choice) == QuestionId(m, choice) = answer_id(m)

\* a variant in which a second selection enables the option again
DisableToggle(m, choice, correct) ==
    IF correct THEN [i \in 1..NumOptions |-> TRUE]
    ELSE [m.disabled EXCEPT ![choice + 1] = ~@]

\* a variant that disables the chosen option only, correct or not
DisableChosen(m, choice, correct) == [m.disabled EXCEPT ![choice + 1] = TRUE]

\* the disabled flags after a selection: all of them when it is correct,
\* the chosen one otherwise
Disable(m, choice, correct) ==
    IF correct THEN [i \in 1..NumOptions |-> TRUE]
    ELSE [m.disabled EXCEPT ![choice + 1] = TRUE]

(***************************************************************************)
(* Messages.                                                               *)
(***************************************************************************)
Interaction(id) == [kind |-> "Interaction", id |-> id]
Close == [kind |-> "Close", id |-> <<>>]

\* a variant that announces a close request as well
ExitTextAlways(reason) ==
    CASE reason = "PoolExhausted" -> Some("There are no more words left in the pool")
      [] reason = "Timeout" -> Some("Stopping game due to inactivity...")
      [] reason = "NetworkError" -> Some("Stopping game due to network error...")
      [] reason = "CloseRequest" -> Some("Stopping game...")

\* the final status text of an exit reason (None for a close request)
ExitText(reason) ==
    CASE reason = "PoolExhausted" -> Some("There are no more words left in the pool")
      [] reason = "Timeout" -> Some("Stopping game due to inactivity...")
      [] reason = "NetworkError" -> Some("Stopping game due to network error...")
      [] reason = "CloseRequest" -> None

(***************************************************************************)
(* The environment: the component interactions Discord delivers, and how   *)
(* much of them a run sees.                                                *)
(***************************************************************************)
\* a choice digit no button of a menu carries
BadChoice == NumOptions + 2

\* ids of other components and ids no component of this program carries
OtherIds ==
    { <<"1", "2">>,                                   \* a bare key
      <<"x", ",", "1">>,                              \* no leading digit
      <<"5", "-", "s">>,                              \* "<invocation id>-submit" of the create-game form
      <<"1", "D", ",", "0">>,                         \* a digit outside ASCII in the run
      [i \in 1..20 |-> DigitChars[IF i = 20 THEN 7 ELSE U64MaxDigits[i] + 1]]
          \o <<",", "0">> }                           \* u64::MAX + 1

\* one session and everything its rounds can meet
EnvRounds ==
    [tasks |-> 1, inflight |-> 1, pool |-> MaxPool, pos |-> <<"N", "V1">>,
     entries |-> {Unbuildable, VerbOnly, NounAndVerb},
     presses |-> {1, 2, 3, BadChoice}, older |-> TRUE, others |-> OtherIds,
     varied |-> MaxVaried, flood |-> {}, failures |-> TRUE, clock |-> FALSE,
     shards |-> {[k \in Keys |-> 1]}]

\* several sessions, concurrent or in turn, with short rounds
EnvSessions ==
    [tasks |-> MaxTasks, inflight |-> MaxInflight, pool |-> 1, pos |-> <<"N">>,
     entries |-> {Unbuildable, NounOnly},
     presses |-> {PlainQuestion.answer}, older |-> FALSE, others |-> {},
     varied |-> 1, flood |-> {}, failures |-> FALSE, clock |-> FALSE,
     shards |-> {[k \in Keys |-> 1]}]

\* several sessions, and in guild 1 users who press one button over and over
EnvFlood ==
    [tasks |-> MaxTasks, inflight |-> 1, pool |-> 1, pos |-> <<"N">>,
     entries |-> {Unbuildable, NounOnly},
     presses |-> {PlainQuestion.answer}, older |-> FALSE, others |-> {},
     varied |-> 1, flood |-> {1}, failures |-> FALSE, clock |-> FALSE,
     shards |-> {f \in [Keys -> Shards] : f[1] = 1}]

\* one session under a clock, and presses of a wrong button and of no button
EnvClock ==
    [tasks |-> 1, inflight |-> 1, pool |-> 1, pos |-> <<"N">>,
     entries |-> {Unbuildable, NounOnly},
     presses |-> {0, BadChoice}, older |-> FALSE, others |-> {},
     varied |-> 1, flood |-> {}, failures |-> FALSE, clock |-> TRUE,
     shards |-> {[k \in Keys |-> 1]}]

Environments == {EnvRounds, EnvSessions, EnvFlood, EnvClock}

(***************************************************************************)
(* State.                                                                  *)
(***************************************************************************)
VARIABLES
    sessions,   \* Manager.sessions: key -> the task owning the receiver of the stored Sender
    env,        \* the environment of the run, one of Environments
    shard,      \* the shard of the registry each key hashes to
    starting,   \* key -> start_game calls past contains_key and before insert
    chan,       \* task -> the messages buffered on its control channel
    waitq,      \* task -> messages of senders waiting for capacity, oldest first
    pc,         \* task -> position of the session task
    key,        \* task -> session_id
    plen,       \* task -> length of the sampled pool
    idx,        \* task -> entries of the pool consumed
    menu,       \* task -> the Menu of the current round
    cur,        \* task -> the selection being answered
    exit_reason,\* task -> InteractionExitReason
    status,     \* task -> the final status message
    rendered,   \* task -> rounds whose message was sent
    resolved,   \* task -> rounds handle_interactions returned Ok for
    waited,     \* task -> ticks the current rx.recv() has waited
    idle,       \* task -> ticks of the round since its message or its last selection
    ev,         \* the call or the receive of the last step, with its outcome
    app         \* the function applied last, with its arguments and its result

vars == <<sessions, env, shard, starting, chan, waitq, pc, key, plen, idx, menu,
          cur, exit_reason, status, rendered, resolved, waited, idle, ev, app>>

taskVars == <<pc, key, plen, idx, menu, cur, exit_reason, status, rendered, resolved,
              waited, idle>>

\* what a call of start_game or stop returns (stop: "waiting" while its
\* send has not completed), that the round loop skipped what it received
\* or received the selection of a disabled option, the number a round was
\* rendered under, or that an outbound call of a session failed
Report(op, k, res) == [op |-> op, key |-> k, res |-> res]

NoEv == Report("none", 0, "")
NoCur == [choice |-> 0, correct |-> FALSE, judged |-> FALSE]
NoStatus == [sent |-> 0, text |-> "", ok |-> FALSE]
NoApp == [op |-> "none"]

Registered(k) == k \in DOMAIN sessions

\* a task that was spawned and has not returned
Live(t) == pc[t] \notin {"none", "done"}

\* a sender waiting for capacity holds the Ref of sessions.get, a read
\* guard on the shard of its key, across the await
RefHeld(s) == \E t \in Tasks : waitq[t] # <<>> /\ shard[key[t]] = s

Pending(t) == chan[t] \o waitq[t]

\* the bound on what the environment enqueues
MayEnqueue(t, m) ==
    \/ Len(Pending(t)) < env.varied
    \/ /\ key[t] \in env.flood
       /\ Len(chan[t]) = ChannelCap
       /\ \A i \in 1..Len(Pending(t)) : Pending(t)[i] # Close
       /\ m \in {Close, chan[t][ChannelCap]}

RECURSIVE SumStarting(_)
SumStarting(S) ==
    IF S = {} THEN 0
    ELSE LET k == CHOOSE x \in S : TRUE IN starting[k] + SumStarting(S \ {k})

\* start_game calls in flight
Inflight == SumStarting(Keys)

Spawned == Cardinality({t \in Tasks : pc[t] # "none"})

Init ==
    /\ sessions = <<>>
    /\ env \in Environments
    /\ shard \in env.shards
    /\ starting = [k \in Keys |-> 0]
    /\ chan = [t \in Tasks |-> <<>>]
    /\ waitq = [t \in Tasks |-> <<>>]
    /\ pc = [t \in Tasks |-> "none"]
    /\ key = [t \in Tasks |-> 0]
    /\ plen = [t \in Tasks |-> 0]
    /\ idx = [t \in Tasks |-> 0]
    /\ menu = [t \in Tasks |-> NoMenu]
    /\ cur = [t \in Tasks |-> NoCur]
    /\ exit_reason = [t \in Tasks |-> "PoolExhausted"]
    /\ status = [t \in Tasks |-> NoStatus]
    /\ rendered = [t \in Tasks |-> 0]
    /\ resolved = [t \in Tasks |-> 0]
    /\ waited = [t \in Tasks |-> 0]
    /\ idle = [t \in Tasks |-> 0]
    /\ ev = NoEv
    /\ app = NoApp

(***************************************************************************)
(* Manager::start_game.  contains_key and insert are two operations on the *)
(* registry: other threads of the runtime run between them.                *)
(***************************************************************************)
\* a variant of the check that never finds the key
contains_key_never(reg, k) == FALSE

\* self.sessions.contains_key(&session_id)
contains_key(reg, k) == k \in DOMAIN reg

\* if self.sessions.contains_key(&session_id) { return Err(SessionAlreadyCreated); }
\* A call that passes the check goes on to the insert.
StartGameCheck(k) ==
    IF contains_key(sessions, k)
    THEN /\ ev' = Report("start", k, "Err")
         /\ UNCHANGED <<sessions, env, app, shard, starting, chan, waitq, taskVars>>
    ELSE /\ Inflight < env.inflight
         /\ Spawned + Inflight < env.tasks
         /\ starting' = [starting EXCEPT ![k] = @ + 1]
         /\ ev' = NoEv
         /\ UNCHANGED <<sessions, env, app, shard, chan, waitq, taskVars>>

\* the registry after insert(k, tx of task t): an earlier Sender under k is
\* replaced (and dropped)
Insert(reg, k, t) == [x \in DOMAIN reg \cup {k} |-> IF x = k THEN t ELSE reg[x]]

\* the registry after remove(k)
Remove(reg, k) == [x \in DOMAIN reg \ {k} |-> reg[x]]

\* let (tx, mut rx) = mpsc::channel(10); self.sessions.insert(session_id, tx);
\* tokio::spawn(..); Ok(()).  n is the length of the pool the task samples.
\* insert takes the write lock of the shard.
StartGameInsert(k, n) ==
    /\ starting[k] > 0
    /\ n <= env.pool
    /\ ~RefHeld(shard[k])
    /\ \E t \in Tasks :
        /\ pc[t] = "none"
        /\ \A u \in Tasks : u < t => pc[u] # "none"
        /\ sessions' = Insert(sessions, k, t)
        /\ pc' = [pc EXCEPT ![t] = "loop"]
        /\ key' = [key EXCEPT ![t] = k]
        /\ plen' = [plen EXCEPT ![t] = n]
    /\ starting' = [starting EXCEPT ![k] = @ - 1]
    /\ ev' = Report("start", k, "Ok")
    /\ UNCHANGED <<waited, idle>>
    /\ UNCHANGED <<env, app, shard, chan, waitq, idx, menu, cur, exit_reason, status,
                   rendered, resolved>>

(***************************************************************************)
(* The session task.                                                       *)
(***************************************************************************)
\* what the round loop did with a sampled entry: the tags in the order
\* tried, and whether a question was built
Tried(t, entry, order, res) ==
    [op |-> "round", key |-> key[t], res |-> res, task |-> t, entry |-> entry, order |-> order]

\* for (round, entry) in sample.iter().enumerate(): the pool is exhausted;
\* or the tags are shuffled and tried in turn on the entry, and either none
\* yields a question (continue) or a Menu is built around the first
\* question found.
SessionLoop(t) ==
    /\ pc[t] = "loop"
    /\ \/ /\ idx[t] = plen[t]
          /\ pc' = [pc EXCEPT ![t] = "exit"]
          /\ ev' = NoEv
          /\ UNCHANGED <<idx, menu>>
       \/ /\ idx[t] < plen[t]
          /\ \E entry \in env.entries, order \in Orders(env.pos) :
                LET question == find_map([i \in 1..Len(order) |-> entry[order[i]]]) IN
                IF ~question.some
                THEN /\ idx' = [idx EXCEPT ![t] = @ + 1]
                     /\ ev' = Tried(t, entry, order, "skipped")
                     /\ UNCHANGED <<pc, menu>>
                ELSE /\ menu' = [menu EXCEPT ![t] =
                                    Menu_new(MenuId(key[t], t, rendered[t] + 1), question.val)]
                     /\ pc' = [pc EXCEPT ![t] = "send_files"]
                     /\ ev' = Tried(t, entry, order, "built")
                     /\ UNCHANGED idx
    /\ UNCHANGED <<waited, idle>>
    /\ UNCHANGED <<sessions, env, app, shard, starting, chan, waitq, key, plen, cur,
                   exit_reason, status, rendered, resolved>>

\* a variant that makes the failed call again
AfterFailureRetry(at) == at

\* where the task goes when the outbound call it is at fails: break out of
\* the for loop (send_files), or out of handle_interactions by ? and then
\* out of the for loop
AfterFailure(at) == "exit"

\* a variant that shows the index of enumerate() as it is
RoundNumberFromZero(round) == round

\* menu.create_message(round + 1, mode): the number in the title
\* "Question {round}", round the index enumerate() gives the entry
RoundNumber(round) == round + 1

\* channel_id.send_files(..).await: the round's message is sent under its
\* number, or the call fails and the loop breaks with NetworkError
SendFiles(t, ok) ==
    /\ ok \/ env.failures
    /\ pc[t] = "send_files"
    /\ IF ok
       THEN /\ pc' = [pc EXCEPT ![t] = "wait"]
            /\ rendered' = [rendered EXCEPT ![t] = @ + 1]
            /\ UNCHANGED exit_reason
       ELSE /\ pc' = [pc EXCEPT ![t] = AfterFailure("send_files")]
            /\ exit_reason' = [exit_reason EXCEPT ![t] = "NetworkError"]
            /\ UNCHANGED rendered
    /\ ev' = IF ok THEN Report("render", key[t], RoundNumber(idx[t]))
             ELSE Report("send_files", key[t], "Err")
    /\ UNCHANGED <<waited, idle>>
    /\ UNCHANGED <<sessions, env, app, shard, starting, chan, waitq, key, plen, idx,
                   menu, cur, status, resolved>>

\* a variant without the comparison of the menu ids
SelectionOfAnyMenu(m, custom_id) ==
    LET p == parse_custom_id(custom_id) IN
    IF p.some THEN Some(p.val.choice) ELSE None

\* Menu::handle_interactions, lines 721 to 727: the choice of a custom id
\* that parses and names this menu; None for one the loop skips
Selection(m, custom_id) ==
    LET p == parse_custom_id(custom_id) IN
    IF p.some /\ p.val.menu_id = m.id THEN Some(p.val.choice) ELSE None

\* component_interaction returns a message of the channel.  Close ends the
\* round with CloseRequest; an interaction that is no selection of this
\* menu is skipped, and the loop calls component_interaction again, with a
\* new timeout; a selection is judged and the flags are set.
Recv(t) ==
    /\ pc[t] = "wait"
    /\ chan[t] # <<>>
    /\ chan' = [chan EXCEPT ![t] = Tail(@)]
    /\ LET m == Head(chan[t])
           sel == Selection(menu[t], m.id)
       IN IF m.kind = "Close"
          THEN /\ exit_reason' = [exit_reason EXCEPT ![t] = "CloseRequest"]
               /\ pc' = [pc EXCEPT ![t] = "exit"]
               /\ UNCHANGED <<menu, cur>>
          ELSE IF ~sel.some
          THEN UNCHANGED <<exit_reason, pc, menu, cur>>
          ELSE LET correct == Correct(menu[t], sel.val) IN
               /\ menu' = [menu EXCEPT ![t].disabled =
                              Disable(menu[t], sel.val, correct)]
               /\ cur' = [cur EXCEPT ![t] =
                              [choice |-> sel.val, correct |-> correct, judged |-> TRUE]]
               /\ pc' = [pc EXCEPT ![t] = "edit"]
               /\ UNCHANGED exit_reason
    /\ waited' = [waited EXCEPT ![t] = 0]
    /\ idle' = [idle EXCEPT ![t] = IF pc'[t] = "wait" THEN @ ELSE 0]
    /\ ev' = LET m == Head(chan[t])
                 sel == Selection(menu[t], m.id)
             IN IF m.kind = "Interaction" /\ ~sel.some
                THEN Report("recv", key[t], "skipped")
                ELSE IF m.kind = "Interaction" /\ menu[t].disabled[sel.val + 1]
                THEN Report("recv", key[t], "repeated")
                ELSE NoEv
    /\ UNCHANGED <<sessions, env, app, shard, starting, waitq, key, plen, idx, status,
                   rendered, resolved>>

\* timeout(120 s, rx.recv()) yields no message: the window elapsed on an
\* empty channel, or the Sender was dropped and the channel is drained.
\* Where the environment has no clock the wait may end at any moment.
RecvTimeout(t) ==
    /\ pc[t] = "wait"
    /\ chan[t] = <<>>
    /\ env.clock => waited[t] = WindowTicks
    /\ waited' = [waited EXCEPT ![t] = 0]
    /\ idle' = [idle EXCEPT ![t] = 0]
    /\ exit_reason' = [exit_reason EXCEPT ![t] = "Timeout"]
    /\ pc' = [pc EXCEPT ![t] = "exit"]
    /\ ev' = NoEv
    /\ UNCHANGED <<sessions, env, app, shard, starting, chan, waitq, key, plen, idx,
                   menu, cur, status, rendered, resolved>>

\* Time passes while rx.recv() waits on an empty channel, up to the end of
\* its timeout.  idle counts up to one tick beyond the window.
Tick(t) ==
    /\ env.clock
    /\ pc[t] = "wait"
    /\ chan[t] = <<>>
    /\ waited[t] < WindowTicks
    /\ waited' = [waited EXCEPT ![t] = @ + 1]
    /\ idle' = [idle EXCEPT ![t] = IF @ > WindowTicks THEN @ ELSE @ + 1]
    /\ ev' = NoEv
    /\ UNCHANGED <<sessions, env, app, shard, starting, chan, waitq, pc, key, plen, idx,
                   menu, cur, exit_reason, status, rendered, resolved>>

\* ci.message.edit(..).await.map_err(|_| NetworkError)?
Edit(t, ok) ==
    /\ ok \/ env.failures
    /\ pc[t] = "edit"
    /\ IF ok
       THEN /\ pc' = [pc EXCEPT ![t] = "respond"]
            /\ UNCHANGED exit_reason
       ELSE /\ pc' = [pc EXCEPT ![t] = AfterFailure("edit")]
            /\ exit_reason' = [exit_reason EXCEPT ![t] = "NetworkError"]
    /\ ev' = IF ok THEN NoEv ELSE Report("edit", key[t], "Err")
    /\ UNCHANGED <<waited, idle>>
    /\ UNCHANGED <<sessions, env, app, shard, starting, chan, waitq, key, plen, idx,
                   menu, cur, status, rendered, resolved>>

\* a variant that leaves the round after any delivered response
AfterRespondBreak(correct) == "loop"

\* where the task goes after a delivered response: if correct { break }
\* ends handle_interactions with Ok and the for loop takes the next entry
AfterRespond(correct) == IF correct THEN "loop" ELSE "wait"

\* ci.create_response(..).await.map_err(|_| NetworkError)?; if correct { break; }
Respond(t, ok) ==
    /\ ok \/ env.failures
    /\ pc[t] = "respond"
    /\ IF ok
       THEN /\ pc' = [pc EXCEPT ![t] = AfterRespond(cur[t].correct)]
            /\ IF AfterRespond(cur[t].correct) = "loop"
               THEN /\ idx' = [idx EXCEPT ![t] = @ + 1]
                    /\ menu' = [menu EXCEPT ![t] = NoMenu]
               ELSE UNCHANGED <<idx, menu>>
            /\ resolved' = [resolved EXCEPT ![t] = IF cur[t].correct THEN @ + 1 ELSE @]
            /\ cur' = [cur EXCEPT ![t] = NoCur]
            /\ UNCHANGED exit_reason
       ELSE /\ pc' = [pc EXCEPT ![t] = AfterFailure("respond")]
            /\ exit_reason' = [exit_reason EXCEPT ![t] = "NetworkError"]
            /\ UNCHANGED <<resolved, idx, menu, cur>>
    /\ ev' = IF ok THEN NoEv ELSE Report("respond", key[t], "Err")
    /\ UNCHANGED <<waited, idle>>
    /\ UNCHANGED <<sessions, env, app, shard, starting, chan, waitq, key, plen, status,
                   rendered>>

\* where the task goes after the final status message: .ok() drops the
\* result of send_message and sessions.remove follows
AfterExitMessage(ok) == "remove"

\* lines 276 to 292: the final status message of the exit reason, if any
ExitMessage(t, ok) ==
    /\ pc[t] = "exit"
    /\ LET message == ExitText(exit_reason[t]) IN
       IF message.some
       THEN /\ ok \/ env.failures
            /\ status' = [status EXCEPT ![t] =
                            [sent |-> @.sent + 1, text |-> message.val, ok |-> ok]]
            /\ pc' = [pc EXCEPT ![t] = AfterExitMessage(ok)]
       ELSE /\ ok
            /\ pc' = [pc EXCEPT ![t] = "remove"]
            /\ UNCHANGED status
    /\ ev' = NoEv
    /\ UNCHANGED <<waited, idle>>
    /\ UNCHANGED <<sessions, env, app, shard, starting, chan, waitq, key, plen, idx,
                   menu, cur, exit_reason, rendered, resolved>>

\* sessions.remove(&session_id), under the write lock of the shard; the
\* task then returns and its Receiver, its Menu and its other locals are dropped
Deregister(t) ==
    /\ pc[t] = "remove"
    /\ ~RefHeld(shard[key[t]])
    /\ sessions' = Remove(sessions, key[t])
    /\ pc' = [pc EXCEPT ![t] = "done"]
    /\ chan' = [chan EXCEPT ![t] = <<>>]
    /\ menu' = [menu EXCEPT ![t] = NoMenu]
    /\ cur' = [cur EXCEPT ![t] = NoCur]
    /\ plen' = [plen EXCEPT ![t] = 0]
    /\ idx' = [idx EXCEPT ![t] = 0]
    /\ resolved' = [resolved EXCEPT ![t] = 0]
    /\ ev' = NoEv
    /\ UNCHANGED <<waited, idle>>
    /\ UNCHANGED <<env, app, shard, starting, waitq, key, exit_reason, status, rendered>>

(***************************************************************************)
(* Manager::stop and Manager::send.                                        *)
(***************************************************************************)
\* how tx.send(m).await on the channel of task t proceeds: the Receiver is
\* gone (Err, dropped by .ok()), the message is buffered, or the sender
\* waits for capacity behind the senders already waiting
SendOutcome(t) ==
    IF pc[t] = "done" THEN "closed"
    ELSE IF Len(chan[t]) < ChannelCap /\ waitq[t] = <<>> THEN "sent"
    ELSE "waiting"

\* tx.send(m).await
TxSend(t, m) ==
    /\ MayEnqueue(t, m)
    /\ CASE SendOutcome(t) = "closed" -> UNCHANGED <<chan, waitq>>
         [] SendOutcome(t) = "sent" ->
                /\ chan' = [chan EXCEPT ![t] = Append(@, m)]
                /\ UNCHANGED waitq
         [] SendOutcome(t) = "waiting" ->
                /\ Len(waitq[t]) < MaxWaiters
                /\ waitq' = [waitq EXCEPT ![t] = Append(@, m)]
                /\ UNCHANGED chan

\* if let Some(tx) = self.sessions.get(&session_id)
Lookup(reg, k) == IF k \in DOMAIN reg THEN Some(reg[k]) ELSE None

\* a variant that ends the session from outside
StopAborts(k) ==
    /\ k \in DOMAIN sessions
    /\ exit_reason' = [exit_reason EXCEPT ![sessions[k]] = "CloseRequest"]
    /\ pc' = [pc EXCEPT ![sessions[k]] = "exit"]
    /\ ev' = Report("stop", k, "true")
    /\ UNCHANGED <<sessions, env, app, shard, starting, chan, waitq, key, plen, idx, menu,
                   cur, status, rendered, resolved, waited, idle>>

\* Manager::stop(session_id)
Stop(k) ==
    /\ LET tx == Lookup(sessions, k) IN
       IF tx.some
       THEN /\ TxSend(tx.val, Close)
            /\ ev' = Report("stop", k, IF SendOutcome(tx.val) = "waiting" THEN "waiting" ELSE "true")
       ELSE /\ ev' = Report("stop", k, "false")
            /\ UNCHANGED <<chan, waitq>>
    /\ UNCHANGED <<sessions, env, app, shard, starting, taskVars>>

\* parse_session_id(&custom_id).and_then(|id| self.sessions.get(&id))
Route(reg, custom_id) ==
    LET id == parse_session_id(custom_id) IN
    IF id.some THEN Lookup(reg, id.val) ELSE None

\* Manager::send(interaction)
Send(custom_id) ==
    /\ LET tx == Route(sessions, custom_id) IN
       IF tx.some
       THEN /\ TxSend(tx.val, Interaction(custom_id))
            /\ ev' = NoEv
       ELSE /\ ev' = NoEv
            /\ UNCHANGED <<chan, waitq>>
    /\ UNCHANGED <<sessions, env, app, shard, starting, taskVars>>

\* the oldest waiting sender of the channel of task t gets the freed slot:
\* its tx.send(m).await completes, its Ref is released, and stop returns true
WakeSender(t) ==
    /\ waitq[t] # <<>>
    /\ Len(chan[t]) < ChannelCap
    /\ LET m == Head(waitq[t]) IN
       /\ chan' = [chan EXCEPT ![t] = Append(@, m)]
       /\ ev' = IF m.kind = "Close"
                THEN Report("stop", key[t], "true")
                ELSE NoEv
    /\ waitq' = [waitq EXCEPT ![t] = Tail(@)]
    /\ UNCHANGED <<sessions, env, app, shard, starting, taskVars>>

\* the ids of the interactions the environment delivers: the buttons of
\* the newest message of each session, a button of its earlier messages,
\* and ids of other origin
ButtonIds ==
    UNION { { ComponentId(MenuId(key[t], t, rendered[t]), i) : i \in env.presses }
            \cup { ComponentId(MenuId(key[t], t, r), 0) :
                     r \in IF env.older THEN 1..(rendered[t] - 1) ELSE {} } :
            t \in {u \in Tasks : rendered[u] > 0} }

EventIds == ButtonIds \cup env.others

\* Manager::send called for one id until the channel it is routed to is
\* full: a user pressing one button over and over
Burst(custom_id) ==
    /\ LET tx == Route(sessions, custom_id) IN
       /\ tx.some
       /\ key[tx.val] \in env.flood
       /\ SendOutcome(tx.val) = "sent"
       /\ Len(chan[tx.val]) < env.varied
       /\ chan' = [chan EXCEPT ![tx.val] =
                     @ \o [i \in 1..(ChannelCap - Len(@)) |-> Interaction(custom_id)]]
    /\ ev' = NoEv
    /\ UNCHANGED <<sessions, env, app, shard, starting, waitq, taskVars>>

Next ==
    \/ \E k \in Keys : StartGameCheck(k)
    \/ \E k \in Keys, n \in 0..MaxPool : StartGameInsert(k, n)
    \/ \E t \in Tasks : SessionLoop(t)
    \/ \E t \in Tasks, ok \in BOOLEAN : SendFiles(t, ok)
    \/ \E t \in Tasks : Recv(t)
    \/ \E t \in Tasks : RecvTimeout(t)
    \/ \E t \in Tasks : Tick(t)
    \/ \E t \in Tasks, ok \in BOOLEAN : Edit(t, ok)
    \/ \E t \in Tasks, ok \in BOOLEAN : Respond(t, ok)
    \/ \E t \in Tasks, ok \in BOOLEAN : ExitMessage(t, ok)
    \/ \E t \in Tasks : Deregister(t)
    \/ \E k \in Keys : Stop(k)
    \/ \E id \in EventIds : Send(id)
    \/ \E id \in EventIds : Burst(id)
    \/ \E t \in Tasks : WakeSender(t)

Spec == Init /\ [][Next]_vars

\* the scheduler runs every task that can take a step, and a sender is
\* woken when its channel has capacity
FairSpec ==
    /\ Spec
    /\ \A t \in Tasks :
        /\ WF_vars(SessionLoop(t))
        /\ WF_vars(SendFiles(t, TRUE))
        /\ WF_vars(Recv(t))
        /\ WF_vars(RecvTimeout(t))
        /\ WF_vars(Tick(t))
        /\ WF_vars(Edit(t, TRUE))
        /\ WF_vars(Respond(t, TRUE))
        /\ WF_vars(\E ok \in BOOLEAN : ExitMessage(t, ok))
        /\ WF_vars(Deregister(t))
        /\ WF_vars(WakeSender(t))

(***************************************************************************)
(* The lexicon and the questions built from it.                            *)
(***************************************************************************)
\* enum NLevel, in the order its derived Ord gives
NLevels == <<"N1", "N2", "N3", "N4">>

\* enum ModeChoice, the arms of Question::new
Modes == {"EngToHir", "HirToEng", "HirToKan", "KanToHir", "KanToEng", "EngToKan"}

\* struct Kanji, struct Reading, struct Sense (gloss: the content of each
\* Gloss) and struct DictEntry; a Vec is a sequence
Kanji(text, levels) == [text |-> text, levels |-> levels]
Reading(text, relevant_to, levels) ==
    [text |-> text, relevant_to |-> relevant_to, levels |-> levels]
Sense(relevant_reading, pos, gloss) ==
    [relevant_reading |-> relevant_reading, pos |-> pos, gloss |-> gloss]
DictEntry(id, kanjis, readings, senses) ==
    [id |-> id, kanjis |-> kanjis, readings |-> readings, senses |-> senses]

\* slice::contains
Contains(s, x) == \E i \in 1..Len(s) : s[i] = x

\* Iterator::find, given the positions of the items that satisfy the
\* predicate: the first of them
Find(s, hits) ==
    IF hits = {} THEN None
    ELSE Some(s[CHOOSE i \in hits : \A j \in hits : i <= j])

\* The entries of the lexicon file, as dict_combine leaves them: add_level
\* gives a kanji only levels it also gives a reading, and trim keeps only
\* the readings and kanjis that carry a level.  Two entries are read
\* "hashi"; one entry has no kanji; one names the reading its sense
\* belongs to; one sense has no gloss; one entry is a verb.
Bridge ==
    DictEntry(1, <<Kanji("k.bridge", <<"N4">>)>>, <<Reading("hashi", <<>>, <<"N4">>)>>,
              <<Sense(<<>>, <<"N">>, <<"bridge">>)>>)
Chopsticks ==
    DictEntry(2, <<Kanji("k.chopsticks", <<"N3">>)>>, <<Reading("hashi", <<>>, <<"N3">>)>>,
              <<Sense(<<>>, <<"N">>, <<"chopsticks">>)>>)
Paper ==
    DictEntry(3, <<Kanji("k.paper", <<"N4">>)>>, <<Reading("kami", <<>>, <<"N4">>)>>,
              <<Sense(<<>>, <<"N">>, <<"paper">>)>>)
Here ==
    DictEntry(4, <<>>, <<Reading("koko", <<>>, <<"N4">>)>>,
              <<Sense(<<>>, <<"N">>, <<"here">>)>>)
Tomorrow ==
    DictEntry(5, <<Kanji("k.tomorrow", <<"N4", "N2">>)>>,
              <<Reading("ashita", <<>>, <<"N4">>), Reading("asu", <<>>, <<"N2">>)>>,
              <<Sense(<<"asu">>, <<"N">>, <<"tomorrow">>)>>)
Cat ==
    DictEntry(6, <<Kanji("k.cat", <<"N3">>)>>, <<Reading("neko", <<>>, <<"N3">>)>>,
              <<Sense(<<>>, <<"N">>, <<"cat">>)>>)
Eat ==
    DictEntry(7, <<Kanji("k.eat", <<"N4">>)>>, <<Reading("taberu", <<>>, <<"N4">>)>>,
              <<Sense(<<>>, <<"V1">>, <<"to eat">>)>>)
Thing ==
    DictEntry(8, <<Kanji("k.thing", <<"N1">>)>>, <<Reading("mono", <<>>, <<"N1">>)>>,
              <<Sense(<<>>, <<"N">>, <<>>)>>)

\* Dictionary.entries
Lexicon == <<Bridge, Chopsticks, Paper, Here, Tomorrow, Cat, Eat, Thing>>

\* a variant that takes any sense with the tag and a gloss that admits a reading
reading_sense_pair_any(entry, pos) ==
    LET ok == {<<i, j>> \in (1..Len(entry.senses)) \X (1..Len(entry.readings)) :
                 /\ Contains(entry.senses[i].pos, pos) /\ entry.senses[i].gloss # <<>>
                 /\ \/ entry.senses[i].relevant_reading = <<>>
                    \/ Contains(entry.senses[i].relevant_reading, entry.readings[j].text)}
    IN IF ok = {} THEN None
       ELSE LET p == CHOOSE q \in ok : \A r \in ok : q[1] < r[1] \/ (q[1] = r[1] /\ q[2] <= r[2])
            IN Some([reading |-> entry.readings[p[2]], sense |-> entry.senses[p[1]]])

\* the first sense with the tag and a gloss, and the first reading that
\* sense is not restricted away from
reading_sense_pair(entry, pos) ==
    LET sense == Find(entry.senses, {i \in 1..Len(entry.senses) :
                 Contains(entry.senses[i].pos, pos) /\ entry.senses[i].gloss # <<>>}) IN
    IF ~sense.some THEN None
    ELSE LET reading == Find(entry.readings, {i \in 1..Len(entry.readings) :
                 \/ sense.val.relevant_reading = <<>>
                 \/ Contains(sense.val.relevant_reading, entry.readings[i].text)}) IN
         IF ~reading.some THEN None
         ELSE Some([reading |-> reading.val, sense |-> sense.val])

\* the first sense with the tag, the first kanji, and the first reading
\* that belongs to that kanji and to that sense
kanji_reading_pair(entry, pos) ==
    LET sense == Find(entry.senses, {i \in 1..Len(entry.senses) :
                 Contains(entry.senses[i].pos, pos)}) IN
    IF ~sense.some \/ entry.kanjis = <<>> THEN None
    ELSE LET kanji == entry.kanjis[1]
             reading == Find(entry.readings, {i \in 1..Len(entry.readings) :
                 /\ \/ entry.readings[i].relevant_to = <<>>
                    \/ Contains(entry.readings[i].relevant_to, kanji.text)
                 /\ \/ sense.val.relevant_reading = <<>>
                    \/ Contains(sense.val.relevant_reading, entry.readings[i].text)}) IN
         IF ~reading.some THEN None
         ELSE Some([kanji |-> kanji, reading |-> reading.val])

\* the first sense with the tag and a gloss, and the first kanji
kanji_sense_pair(entry, pos) ==
    LET sense == Find(entry.senses, {i \in 1..Len(entry.senses) :
                 Contains(entry.senses[i].pos, pos) /\ entry.senses[i].gloss # <<>>}) IN
    IF ~sense.some \/ entry.kanjis = <<>> THEN None
    ELSE Some([kanji |-> entry.kanjis[1], sense |-> sense.val])

\* the text of the reading, of the kanji, or of the first gloss of the
\* sense of an extracted pair (pair?, then the field)
ReadingText(p) == IF p.some THEN Some(p.val.reading.text) ELSE None
KanjiText(p) == IF p.some THEN Some(p.val.kanji.text) ELSE None
FirstGloss(p) == IF p.some THEN Some(p.val.sense.gloss[1]) ELSE None

\* the values of a sequence of Options that are Some, in order
RECURSIVE Somes(_)
Somes(opts) ==
    IF opts = <<>> THEN <<>>
    ELSE (IF Head(opts).some THEN <<Head(opts).val>> ELSE <<>>) \o Somes(Tail(opts))

\* The text an entry offers as an option in a mode: the reading, the
\* first kanji or the first gloss of the pair the mode extracts.  The same
\* extraction gives the target of the source entry (options[0]) and, in the
\* closure of filter_map, the value of another entry.
OptionValue(e, mode, pos) ==
    CASE mode = "EngToHir" -> ReadingText(reading_sense_pair(e, pos))
      [] mode = "HirToEng" -> FirstGloss(reading_sense_pair(e, pos))
      [] mode = "HirToKan" -> KanjiText(kanji_reading_pair(e, pos))
      [] mode = "KanToHir" -> ReadingText(kanji_reading_pair(e, pos))
      [] mode = "KanToEng" -> FirstGloss(kanji_sense_pair(e, pos))
      [] mode = "EngToKan" -> KanjiText(kanji_sense_pair(e, pos))

\* Question.prompt in each mode
Prompt(e, mode, pos) ==
    CASE mode = "EngToHir" -> FirstGloss(reading_sense_pair(e, pos))
      [] mode = "HirToEng" -> ReadingText(reading_sense_pair(e, pos))
      [] mode = "HirToKan" -> ReadingText(kanji_reading_pair(e, pos))
      [] mode = "KanToHir" -> KanjiText(kanji_reading_pair(e, pos))
      [] mode = "KanToEng" -> KanjiText(kanji_sense_pair(e, pos))
      [] mode = "EngToKan" -> FirstGloss(kanji_sense_pair(e, pos))

\* dictionary.entries.iter().filter_map(..): the values of the entries with
\* another id that yield a pair under the tag, in lexicon order
Alternates(entry, mode, pos, dictionary) ==
    Somes([i \in 1..Len(dictionary) |->
              IF dictionary[i].id = entry.id THEN None
              ELSE OptionValue(dictionary[i], mode, pos)])

\* IteratorRandom::choose_multiple_fill: the first Len(buf) items fill buf
\* in order; item i after them (counted from 1 over all items) draws k in
\* 0..i-1 and replaces buf[k] when k is a slot of buf.  Slots beyond the
\* items keep what they held.
RECURSIVE choose_multiple_fill(_, _, _, _)
choose_multiple_fill(buf, items, draws, i) ==
    IF i > Len(items) THEN buf
    ELSE IF i <= Len(buf)
         THEN choose_multiple_fill([buf EXCEPT ![i] = items[i]], items, draws, i + 1)
         ELSE LET k == draws[i - Len(buf)] IN
              choose_multiple_fill(IF k < Len(buf) THEN [buf EXCEPT ![k + 1] = items[i]] ELSE buf,
                                   items, draws, i + 1)

\* the draws of the random source for n items and m slots
Draws(n, m) ==
    IF n <= m THEN {<<>>}
    ELSE {d \in [1..(n - m) -> 0..(n - 1)] : \A j \in 1..(n - m) : d[j] <= m + j - 1}

\* Question::new: None when the mode's pair cannot be extracted; otherwise
\* the target in options[0], the other slots (empty strings at first)
\* filled from the alternates, the five options shuffled, and the answer
\* the first position that holds the target's text
Question_new(entry, mode, pos, dictionary, draws, perm) ==
    LET target == OptionValue(entry, mode, pos) IN
    IF ~target.some THEN None
    ELSE LET rest == choose_multiple_fill([i \in 1..(NumOptions - 1) |-> ""],
                         Alternates(entry, mode, pos, dictionary), draws, 1)
             options == shuffle(<<target.val>> \o rest, perm)
         IN Some([prompt |-> Prompt(entry, mode, pos).val,
                  options |-> options,
                  answer |-> Position(options, target.val)])

\* DictEntry::levels: the levels of the readings, sorted, each once
levels_of(entry) ==
    SelectSeq(NLevels, LAMBDA l : \E i \in 1..Len(entry.readings) :
                                      Contains(entry.readings[i].levels, l))

\* the level test alone
SampledByLevel(entry, levels, pos) ==
    \E i \in 1..Len(levels_of(entry)) : levels_of(entry)[i] \in levels

\* the test of Dictionary::sample on an entry; levels and pos are slices
\* the code only asks for membership, sets here
Sampled(entry, levels, pos) ==
    /\ \E i \in 1..Len(levels_of(entry)) : levels_of(entry)[i] \in levels
    /\ \E i \in 1..Len(entry.senses) :
           \E j \in 1..Len(entry.senses[i].pos) : entry.senses[i].pos[j] \in pos

\* Dictionary::sample: the entries that pass, in lexicon order, shuffled
sample(dictionary, levels, pos, perm) ==
    shuffle(SelectSeq(dictionary, LAMBDA e : Sampled(e, levels, pos)), perm)

\* the ids of a sequence of entries
Ids(entries) == [i \in 1..Len(entries) |-> entries[i].id]

\* A call of Question::new on an entry of the lexicon, with what the
\* random source gives.
ApplyQuestionNew(entry, mode, pos, draws, perm) ==
    /\ app = NoApp
    /\ app' = [op |-> "Question::new", entry |-> entry.id, mode |-> mode, pos |-> pos,
               result |-> Question_new(entry, mode, pos, Lexicon, draws, perm)]
    /\ UNCHANGED <<sessions, env, shard, starting, chan, waitq, ev, taskVars>>

\* A call of Dictionary::sample.
ApplySample(levels, pos, perm) ==
    /\ app = NoApp
    /\ app' = [op |-> "sample", levels |-> levels, pos |-> pos,
               result |-> Ids(sample(Lexicon, levels, pos, perm))]
    /\ UNCHANGED <<sessions, env, shard, starting, chan, waitq, ev, taskVars>>

\* The call returns.
Return ==
    /\ app # NoApp
    /\ app' = NoApp
    /\ UNCHANGED <<sessions, env, shard, starting, chan, waitq, ev, taskVars>>

\* the level filters the calls of the model pass
LevelFilters == {{}, {"N1"}, {"N2"}, {"N3"}, {"N2", "N3"}, {"N4"}}

\* no session runs while the functions are applied
LexiconInit == Init /\ env = EnvClock /\ shard = [k \in Keys |-> 1]

\* a call starts when no call is in progress
LexiconNext ==
    \/ /\ app = NoApp
       /\ \E i \in 1..Len(Lexicon), mode \in Modes, pos \in PosTags :
           \E draws \in Draws(Len(Alternates(Lexicon[i], mode, pos, Lexicon)), NumOptions - 1),
              perm \in Permutations(1..NumOptions) :
               ApplyQuestionNew(Lexicon[i], mode, pos, draws, perm)
    \/ /\ app = NoApp
       /\ \E levels \in LevelFilters, pos \in SUBSET PosTags :
           \E perm \in Permutations(1..Cardinality({i \in 1..Len(Lexicon) :
                                        Sampled(Lexicon[i], levels, pos)})) :
               ApplySample(levels, pos, perm)
    \/ Return

LexiconSpec == LexiconInit /\ [][LexiconNext]_vars

(***************************************************************************)
(* The distractor engine (kana scramble), after its contract: the engine   *)
(* is not among the sources.                                               *)
(***************************************************************************)
\* the kana grid: 5 vowel rows and 8 consonant columns ("-" the bare vowels)
Vowels == {"a", "i", "u", "e", "o"}
GridColumns == {"-", "k", "s", "t", "n", "h", "m", "r"}

\* the hiragana and the katakana chart
Scripts == {"hira", "kata"}

\* a kana <<script, consonant, vowel>>: a character of the grid, a glide
\* (ya, yu, yo, standard "y" or small "xy"), wa or wo, or the syllabic n,
\* which is on no row or column
GridKana == Scripts \X GridColumns \X Vowels
GlideKana == Scripts \X {"y", "xy"} \X {"a", "u", "o"}
WaKana == Scripts \X {"w"} \X {"a", "o"}
Kana == GridKana \cup GlideKana \cup WaKana \cup (Scripts \X {"nn"} \X {"-"})

\* The swap pool of a character, in the chart that contains it: the other
\* characters of its row and of its column of the grid; the other glides of
\* its size; the one other character of the wa column; none otherwise.
SwapPool(k) ==
    IF k \in GridKana
    THEN {<<k[1], c, k[3]>> : c \in GridColumns \ {k[2]}}
             \cup {<<k[1], k[2], v>> : v \in Vowels \ {k[3]}}
    ELSE IF k \in GlideKana THEN {g \in GlideKana : g[1] = k[1] /\ g[2] = k[2] /\ g # k}
    ELSE IF k \in WaKana THEN {w \in WaKana : w[1] = k[1] /\ w # k}
    ELSE {}

\* the character has a swap pool
Swappable(k) == SwapPool(k) # {}

\* the positions of a reading that can be swapped
SwappablePositions(r) == {i \in 1..Len(r) : Swappable(r[i])}

\* a variant that looks at the length only
EverySwapWhenShort(r) == Len(r) < 4

\* The branch without coin flips: the reading has fewer than 4 characters,
\* or fewer than 60% of its characters are swappable.
ShortLength == 4
SwappablePercent == 60

EverySwap(r) ==
    \/ Len(r) < ShortLength
    \/ Cardinality(SwappablePositions(r)) * 100 < SwappablePercent * Len(r)

\* a variant that looks the pool up in the katakana chart
ChoicesOfKatakana(k, every) ==
    IF ~Swappable(k) THEN {k} ELSE {<<"kata", c[2], c[3]>> : c \in SwapPool(k)}

\* what a position of the scramble can hold: a member of the pool when the
\* character is swapped; the character itself when it has no pool or, in the
\* coin-flip branch, when the coin says so
Choices(k, every) ==
    IF ~Swappable(k) THEN {k}
    ELSE IF every THEN SwapPool(k)
    ELSE SwapPool(k) \cup {k}

\* the results of the scramble of the characters of r from position i on
RECURSIVE ScrambleFrom(_, _, _)
ScrambleFrom(r, i, every) ==
    IF i > Len(r) THEN {<<>>}
    ELSE {<<c>> \o rest : c \in Choices(r[i], every), rest \in ScrambleFrom(r, i + 1, every)}

\* scramble(reading): the strings the random source can make it return
scramble(r) == ScrambleFrom(r, 1, EverySwap(r))

\* the fixed placeholder, no kana string
Sentinel == <<<<"none", "?", "?">>>>

\* the whole-string scramble is tried at most this often for one distractor
MaxAttempts == 1000

\* the syllabic n of hiragana
Nn == <<"hira", "nn", "-">>

\* The readings the engine is applied to: one and two characters of the
\* grid; a glide and a grid character; wa and three n (4 characters, a
\* quarter swappable); three glides and n (4 characters, three quarters
\* swappable); wa, wo, a glide and two n (5 characters, 60% swappable); a
\* lone n; small glides in katakana behind a grid character.
ScrambleReadings ==
    { <<<<"hira", "k", "a">>>>,
      <<<<"hira", "n", "e">>, <<"hira", "k", "o">>>>,
      <<<<"hira", "y", "a">>, <<"hira", "m", "a">>>>,
      <<<<"hira", "w", "a">>, Nn, Nn, Nn>>,
      <<<<"hira", "y", "a">>, <<"hira", "y", "u">>, <<"hira", "y", "o">>, Nn>>,
      <<<<"hira", "w", "a">>, <<"hira", "w", "o">>, <<"hira", "y", "o">>, Nn, Nn>>,
      <<Nn>>,
      <<<<"kata", "k", "i">>, <<"kata", "xy", "a">>>> }

\* the readings a distractor is made for
DistractorReadings ==
    { <<Nn>>,
      <<<<"hira", "k", "a">>>>,
      <<<<"hira", "w", "a">>, Nn, Nn, Nn>> }

\* options chosen before the distractor is made: the correct reading, alone
\* or with strings the scramble of some reading can return
OtherOptions ==
    { <<<<"hira", "w", "o">>, Nn, Nn, Nn>>,
      <<<<"hira", "k", "i">>>> }
ChosenBefore(r) == {{r}, {r} \cup OtherOptions}

\* A call of scramble returns s.
ApplyScramble(r, s) ==
    /\ app = NoApp
    /\ s \in scramble(r)
    /\ app' = [op |-> "scramble", reading |-> r, result |-> s]
    /\ UNCHANGED <<sessions, env, shard, starting, chan, waitq, ev, taskVars>>

\* A distractor is asked for, the options in chosen being taken.
StartDistractor(r, chosen) ==
    /\ app = NoApp
    /\ app' = [op |-> "distractor", reading |-> r, chosen |-> chosen, attempts |-> 0,
               result |-> None]
    /\ UNCHANGED <<sessions, env, shard, starting, chan, waitq, ev, taskVars>>

\* a variant that takes the first string
AcceptAny(s, chosen) == Some(s)

\* what an attempt that gave s yields: s when no chosen option equals it
Accept(s, chosen) == IF s \in chosen THEN None ELSE Some(s)

\* One attempt: the whole string is scrambled anew; a string that is not
\* among the chosen options is the distractor, any other is discarded.
Attempt(s) ==
    /\ app.op = "distractor"
    /\ ~app.result.some
    /\ app.attempts < MaxAttempts
    /\ s \in scramble(app.reading)
    /\ app' = [app EXCEPT !.attempts = @ + 1, !.result = Accept(s, app.chosen)]
    /\ UNCHANGED <<sessions, env, shard, starting, chan, waitq, ev, taskVars>>

\* Every attempt collided: the placeholder is the distractor.
GiveUp ==
    /\ app.op = "distractor"
    /\ ~app.result.some
    /\ app.attempts = MaxAttempts
    /\ app' = [app EXCEPT !.result = Some(Sentinel)]
    /\ UNCHANGED <<sessions, env, shard, starting, chan, waitq, ev, taskVars>>

\* The call returns its string.
ReturnString ==
    /\ app.op \in {"scramble", "distractor"}
    /\ app.op = "distractor" => app.result.some
    /\ app' = NoApp
    /\ UNCHANGED <<sessions, env, shard, starting, chan, waitq, ev, taskVars>>

ScrambleNext ==
    \/ /\ app = NoApp
       /\ \E r \in ScrambleReadings : \E s \in scramble(r) : ApplyScramble(r, s)
    \/ /\ app = NoApp
       /\ \E r \in DistractorReadings : \E chosen \in ChosenBefore(r) : StartDistractor(r, chosen)
    \/ /\ app.op = "distractor"
       /\ \E s \in scramble(app.reading) : Attempt(s)
    \/ GiveUp
    \/ ReturnString

ScrambleSpec == LexiconInit /\ [][ScrambleNext]_vars

(***************************************************************************)
(* The identifiers of rounds and buttons, formatted and parsed.            *)
(***************************************************************************)
\* the session ids the identifiers are formatted for: guild or user ids
SessionKeys == {0, 1, 12, 340, 999999999}

\* the identifiers a task draws in the calls of the model
UuidDraws == {UuidText(t, r) : t \in 1..2, r \in 1..3}

\* last fields that are no single digit 0 to 4
BadFields ==
    { <<>>, <<"5">>, <<"9">>, <<"1", "4">>, <<"0", "0">>, <<"D">>, <<"a">>,
      <<"-", "1">>, <<"4", "\n">>, <<"4", " ">> }

\* let menu_id = format!("{session_id},{}", Uuid::new_v4()); Menu::new(.., menu_id, ..):
\* the ids of the five QuestionComponents
ApplyMenuNew(session_id, uuid) ==
    /\ app = NoApp
    /\ LET m == Menu_new(FmtNat(session_id) \o <<",">> \o uuid, PlainQuestion) IN
       app' = [op |-> "Menu::new", session_id |-> session_id, uuid |-> uuid, id |-> m.id,
               questions |-> [i \in 1..NumOptions |-> QuestionId(m, i - 1)]]
    /\ UNCHANGED <<sessions, env, shard, starting, chan, waitq, ev, taskVars>>

\* Manager::send and handle_interactions parse the custom id of an
\* interaction: parse_session_id and parse_custom_id
ApplyParse(custom_id) ==
    /\ app.op = "Menu::new"
    /\ app' = [op |-> "parse", session_id |-> app.session_id, uuid |-> app.uuid,
               custom_id |-> custom_id,
               session |-> parse_session_id(custom_id),
               custom |-> parse_custom_id(custom_id)]
    /\ UNCHANGED <<sessions, env, shard, starting, chan, waitq, ev, taskVars>>

\* a menu is built; the id of one of its buttons is parsed, or its menu id
\* followed by another last field, or its menu id alone
IdentNext ==
    \/ \E s \in SessionKeys, u \in UuidDraws : ApplyMenuNew(s, u)
    \/ /\ app.op = "Menu::new"
       /\ \E i \in 1..NumOptions : ApplyParse(app.questions[i])
    \/ /\ app.op = "Menu::new"
       /\ \E f \in BadFields : ApplyParse(app.id \o <<",">> \o f)
    \/ /\ app.op = "Menu::new"
       /\ ApplyParse(app.id)
    \/ Return

IdentSpec == LexiconInit /\ [][IdentNext]_vars

(***************************************************************************)
(* The pair extraction applied to entries of every shape.                  *)
(***************************************************************************)
\* entries with up to two kanji, up to two readings that may be restricted
\* to a kanji, and one or two senses that may be restricted to a reading
\* (one the entry does not have among them) and may lack a gloss
PairEntries ==
    { DictEntry(1, ks, rs, ss) :
        ks \in {<<>>, <<Kanji("k1", <<>>)>>, <<Kanji("k2", <<>>), Kanji("k1", <<>>)>>},
        rs \in { r \in UNION {[1..n -> {Reading(t, rel, <<>>) :
                                           t \in {"r1", "r2"},
                                           rel \in {<<>>, <<"k1">>, <<"k2">>}}] : n \in 0..2} :
                   Len(r) = 2 => r[1].text = "r1" /\ r[2].text = "r2" },
        ss \in UNION {[1..n -> {Sense(rr, <<tag>>, g) : rr \in {<<>>, <<"r2">>, <<"r3">>},
                                                       tag \in {"N", "V1"},
                                                       g \in {<<>>, <<"gloss">>}}] : n \in 1..2} }

\* Question::new_* call one of the three extractions on the target entry
ApplyPair(f, entry, pos) ==
    /\ app = NoApp
    /\ app' = [op |-> "pair", f |-> f, entry |-> entry, pos |-> pos,
               result |-> CASE f = "reading_sense_pair" -> reading_sense_pair(entry, pos)
                            [] f = "kanji_reading_pair" -> kanji_reading_pair(entry, pos)
                            [] f = "kanji_sense_pair" -> kanji_sense_pair(entry, pos)]
    /\ UNCHANGED <<sessions, env, shard, starting, chan, waitq, ev, taskVars>>

PairNext ==
    \/ /\ app = NoApp
       /\ \E f \in {"reading_sense_pair", "kanji_reading_pair", "kanji_sense_pair"},
             entry \in PairEntries : ApplyPair(f, entry, "N")
    \/ Return

PairSpec == LexiconInit /\ [][PairNext]_vars

(***************************************************************************)
(* The create-game form of /start (FiltersMenu).  The form lives in app:   *)
(* its filters, its submitted flag, the submit presses it has handled, the *)
(* calls of Manager::start_game it has made and the answer to the last     *)
(* press; live is FALSE once a response failed (? returns the error).      *)
(***************************************************************************)
\* a variant that lets the user submit again after a refused start
SubmitPressRetry(f, ok, res, ok2) ==
    IF f.submitted
    THEN [f EXCEPT !.presses = @ + 1, !.live = ok,
                   !.answer = IF ok THEN "Game has already been created" ELSE ""]
    ELSE IF ~ok
    THEN [f EXCEPT !.submitted = TRUE, !.presses = @ + 1, !.live = FALSE, !.answer = ""]
    ELSE [f EXCEPT !.submitted = (res = "Ok"), !.presses = @ + 1, !.calls = @ + 1,
                   !.started = res, !.live = ok2,
                   !.answer = IF res = "Err" /\ ok2
                              THEN "You've already started a game. Please stop it to start a new one."
                              ELSE ""]

\* the arm ComponentInteractionDataKind::Button for the submit id: the form
\* after a press.  ok: the first response is delivered; res: what
\* start_game returns; ok2: the edit or the deletion of the response is
\* delivered.
SubmitPress(f, ok, res, ok2) ==
    IF f.submitted
    THEN [f EXCEPT !.presses = @ + 1, !.live = ok,
                   !.answer = IF ok THEN "Game has already been created" ELSE ""]
    ELSE IF ~ok
    THEN [f EXCEPT !.submitted = TRUE, !.presses = @ + 1, !.live = FALSE, !.answer = ""]
    ELSE [f EXCEPT !.submitted = TRUE, !.presses = @ + 1, !.calls = @ + 1,
                   !.started = res, !.live = ok2,
                   !.answer = IF res = "Err" /\ ok2
                              THEN "You've already started a game. Please stop it to start a new one."
                              ELSE ""]

\* FiltersMenu::new and the start of handle_interactions: all levels
\* selected, submitted = false
OpenForm ==
    /\ app = NoApp
    /\ app' = [op |-> "form", levels |-> {NLevels[i] : i \in 1..Len(NLevels)},
               submitted |-> FALSE, presses |-> 0, calls |-> 0, started |-> "",
               answer |-> "", live |-> TRUE]
    /\ UNCHANGED <<sessions, env, shard, starting, chan, waitq, ev, taskVars>>

\* the arm StringSelect for the levels menu: the filter is replaced and
\* the interaction acknowledged
SelectLevels(levels, ok) ==
    /\ app.op = "form" /\ app.live
    /\ levels # {}
    /\ app' = [app EXCEPT !.levels = levels, !.live = ok]
    /\ UNCHANGED <<sessions, env, shard, starting, chan, waitq, ev, taskVars>>

\* the collector yields a press of the submit button
PressSubmit(ok, res, ok2) ==
    /\ app.op = "form" /\ app.live
    /\ app.presses < MaxPresses
    /\ app' = SubmitPress(app, ok, res, ok2)
    /\ UNCHANGED <<sessions, env, shard, starting, chan, waitq, ev, taskVars>>

\* handle_interactions returns: the collector timed out, or a response failed
FormEnds ==
    /\ app.op = "form"
    /\ app' = NoApp
    /\ UNCHANGED <<sessions, env, shard, starting, chan, waitq, ev, taskVars>>

FormNext ==
    \/ OpenForm
    \/ /\ app.op = "form"
       /\ \E levels \in LevelFilters, ok \in BOOLEAN : SelectLevels(levels, ok)
    \/ /\ app.op = "form"
       /\ \E ok, ok2 \in BOOLEAN, res \in {"Ok", "Err"} : PressSubmit(ok, res, ok2)
    \/ FormEnds

FormSpec == LexiconInit /\ [][FormNext]_vars

(***************************************************************************)
(* dict_combine: the JMdict entries are annotated with the levels of the   *)
(* JLPT lists and the annotated ones are emitted.  The merge lives in app: *)
(* the entries (those the map of dict shares, by position), the calls made,*)
(* the last call with the entries before it, and the output once emitted.  *)
(***************************************************************************)
\* a variant that annotates every kanji, whatever the reading names
add_level_all_kanji(entry, hiragana, level) ==
    LET hits == {i \in 1..Len(entry.readings) : entry.readings[i].text = hiragana} IN
    IF hits = {} THEN entry
    ELSE LET r == CHOOSE i \in hits : \A j \in hits : i <= j IN
         IF Contains(entry.readings[r].levels, level) THEN entry
         ELSE [entry EXCEPT
                 !.readings[r].levels = Append(@, level),
                 !.kanjis = [j \in 1..Len(entry.kanjis) |->
                     IF ~Contains(entry.kanjis[j].levels, level)
                     THEN [entry.kanjis[j] EXCEPT !.levels = Append(@, level)]
                     ELSE entry.kanjis[j]]]

\* DictEntry::add_level: the entry after the call
add_level(entry, hiragana, level) ==
    LET hits == {i \in 1..Len(entry.readings) : entry.readings[i].text = hiragana} IN
    IF hits = {} THEN entry
    ELSE LET r == CHOOSE i \in hits : \A j \in hits : i <= j
             reading == entry.readings[r]
         IN IF Contains(reading.levels, level) THEN entry
            ELSE [entry EXCEPT
                    !.readings[r].levels = Append(@, level),
                    !.kanjis = [j \in 1..Len(entry.kanjis) |->
                        IF /\ ~Contains(entry.kanjis[j].levels, level)
                           /\ \/ reading.relevant_to = <<>>
                              \/ Contains(reading.relevant_to, entry.kanjis[j].text)
                        THEN [entry.kanjis[j] EXCEPT !.levels = Append(@, level)]
                        ELSE entry.kanjis[j]]]

\* DictEntry::is_annotated
is_annotated(entry) ==
    \/ \E i \in 1..Len(entry.kanjis) : entry.kanjis[i].levels # <<>>
    \/ \E i \in 1..Len(entry.readings) : entry.readings[i].levels # <<>>

\* a variant that retains every kanji
trim_readings(entry) ==
    [entry EXCEPT !.readings = SelectSeq(@, LAMBDA r : r.levels # <<>>)]

\* DictEntry::trim: the entry after the call
trim(entry) ==
    [entry EXCEPT !.readings = SelectSeq(@, LAMBDA r : r.levels # <<>>),
                  !.kanjis = SelectSeq(@, LAMBDA k : k.levels # <<>>)]

RECURSIVE dict(_, _)
\* dict::dict(file).get(hiragana): the entries pushed under the key, one
\* push for each reading of an entry with that text, in the order of the
\* file (the empty sequence: no such key)
dict(entries, hiragana) ==
    IF entries = <<>> THEN <<>>
    ELSE LET n == Len(entries)
             e == entries[n]
             pushes == Cardinality({i \in 1..Len(e.readings) : e.readings[i].text = hiragana})
         IN dict(SubSeq(entries, 1, n - 1), hiragana) \o [k \in 1..pushes |-> n]

\* annotated_dict, the body of its loop for one JlptEntry: the entries after it
annotated_dict(entries, j) ==
    LET matches == dict(entries, j.hiragana) IN
    IF matches = <<>> THEN entries
    ELSE IF Len(matches) = 1
    THEN [entries EXCEPT ![matches[1]] = add_level(@, j.hiragana, j.level)]
    ELSE LET same == IF j.kanji.some
                     THEN SelectSeq(matches, LAMBDA i :
                              \E k \in 1..Len(entries[i].kanjis) :
                                  entries[i].kanjis[k].text = j.kanji.val)
                     ELSE SelectSeq(matches, LAMBDA i : entries[i].kanjis = <<>>)
         IN IF Len(same) = 1
            THEN [entries EXCEPT ![same[1]] = add_level(@, j.hiragana, j.level)]
            ELSE entries

\* dict_entries: every entry under some key of the map that is annotated is
\* trimmed and inserted under its id into the HashMap set, whose values
\* are emitted (in no specified order): the map
dict_entries(entries) ==
    LET kept == {i \in 1..Len(entries) :
                    entries[i].readings # <<>> /\ is_annotated(entries[i])}
        ids == {entries[i].id : i \in kept}
    IN [id \in ids |-> trim(entries[CHOOSE i \in kept : entries[i].id = id])]

\* dict::dict(jmdict.jsonl): entries without levels.  Three entries and a
\* fourth are read "hashi", one of them without kanji and two of them
\* written with the same kanji; three are read "asu", two of them without
\* kanji; one reading names the kanji it belongs to; the last entry lists
\* one reading twice.
LoadDict ==
    /\ app = NoApp
    /\ app' = [op |-> "combine", calls |-> 0, out |-> [some |-> FALSE, val |-> <<>>],
               last |-> [f |-> "load"],
               entries |-> <<
                 DictEntry(1, <<Kanji("k1", <<>>), Kanji("k2", <<>>)>>,
                           <<Reading("hashi", <<>>, <<>>)>>, <<>>),
                 DictEntry(2, <<Kanji("k3", <<>>)>>, <<Reading("hashi", <<>>, <<>>)>>, <<>>),
                 DictEntry(3, <<>>, <<Reading("hashi", <<>>, <<>>)>>, <<>>),
                 DictEntry(4, <<Kanji("k1", <<>>)>>,
                           <<Reading("hashi", <<>>, <<>>), Reading("kami", <<>>, <<>>)>>, <<>>),
                 DictEntry(5, <<Kanji("k4", <<>>), Kanji("k5", <<>>)>>,
                           <<Reading("asu", <<"k4">>, <<>>), Reading("ashita", <<>>, <<>>)>>, <<>>),
                 DictEntry(6, <<>>, <<Reading("asu", <<>>, <<>>)>>, <<>>),
                 DictEntry(7, <<>>, <<Reading("asu", <<>>, <<>>), Reading("neko", <<>>, <<>>)>>, <<>>),
                 DictEntry(8, <<>>, <<Reading("tori", <<>>, <<>>), Reading("tori", <<>>, <<>>)>>, <<>>) >>]
    /\ UNCHANGED <<sessions, env, shard, starting, chan, waitq, ev, taskVars>>

\* a call entry.add_level(hiragana, level), as annotated_dict makes it or
\* with a text the entry is not read as; again: the entry after a second
\* call with the same arguments
ApplyAddLevel(i, hiragana, level) ==
    /\ app.op = "combine" /\ ~app.out.some
    /\ app.calls < MaxCalls
    /\ LET after == add_level(app.entries[i], hiragana, level) IN
       app' = [app EXCEPT
                 !.calls = @ + 1,
                 !.entries[i] = after,
                 !.last = [f |-> "add_level", i |-> i, hiragana |-> hiragana, level |-> level,
                           before |-> app.entries, again |-> add_level(after, hiragana, level)]]
    /\ UNCHANGED <<sessions, env, shard, starting, chan, waitq, ev, taskVars>>

\* annotated_dict takes the next JlptEntry of a pool
AnnotateEntry(j) ==
    /\ app.op = "combine" /\ ~app.out.some
    /\ app.calls < MaxCalls
    /\ app' = [app EXCEPT
                 !.calls = @ + 1,
                 !.entries = annotated_dict(app.entries, j),
                 !.last = [f |-> "annotate", jlpt |-> j, before |-> app.entries]]
    /\ UNCHANGED <<sessions, env, shard, starting, chan, waitq, ev, taskVars>>

\* the pools are consumed and run collects dict_entries
Emit ==
    /\ app.op = "combine" /\ ~app.out.some
    /\ app' = [app EXCEPT !.out = Some(dict_entries(app.entries))]
    /\ UNCHANGED <<sessions, env, shard, starting, chan, waitq, ev, taskVars>>

CombineNext ==
    \/ LoadDict
    \/ /\ app.op = "combine"
       /\ \E i \in {1, 5, 8}, hiragana \in {"hashi", "asu", "ashita", "tori"},
             level \in {"N4", "N3"} :
             ApplyAddLevel(i, hiragana, level)
    \/ /\ app.op = "combine"
       /\ \E hiragana \in {"hashi", "kami", "asu", "ashita", "neko", "tori", "inu"},
             kanji \in {[some |-> FALSE, val |-> ""], Some("k1"), Some("k2"), Some("k4"), Some("k9")},
             level \in {"N4", "N3"} :
             AnnotateEntry([hiragana |-> hiragana, kanji |-> kanji, level |-> level])
    \/ Emit
    \/ Return

CombineSpec == LexiconInit /\ [][CombineNext]_vars

(***************************************************************************)
(* Properties.                                                             *)
(***************************************************************************)
\* what is pending on the control channel of task t
PendingOf(c, w, t) == c[t] \o w[t]

\* the custom id starts with the decimal text of key k and no digit follows it
IdNamesKey(id, k) ==
    LET n == Len(FmtNat(k)) IN
    /\ Len(id) >= n
    /\ SubSeq(id, 1, n) = FmtNat(k)
    /\ Len(id) > n => id[n + 1] \notin DecimalDigits

\* the custom id is that of one of the five buttons of menu m
ButtonOf(m, id) ==
    \E i \in 0..(NumOptions - 1) : id = m.id \o <<",">> \o FmtNat(i)

AllDisabled == [i \in 1..NumOptions |-> TRUE]

\* C1: for every session key at most one session task is live, also when
\* start_game calls for the same key run concurrently.
OneSessionPerKey ==
    \A t, u \in Tasks : Live(t) /\ Live(u) /\ key[t] = key[u] => t = u

\* C2: start_game passes its existence check only for a key that is not
\* registered and returns Err only for a key that is registered; the step
\* that returns Err changes neither the registry nor any channel nor any task.
StartGameErrIffRegistered ==
    [][/\ \A k \in Keys : starting'[k] > starting[k] => k \notin DOMAIN sessions
       /\ (ev'.op = "start" /\ ev'.res = "Err") =>
            /\ ev'.key \in DOMAIN sessions
            /\ UNCHANGED <<sessions, starting, chan, waitq, taskVars>>]_vars

\* C2 witness: a start_game call has just returned Err for a key whose
\* session is live
StartGameRefused ==
    /\ ev.op = "start" /\ ev.res = "Err"
    /\ ev.key \in DOMAIN sessions
    /\ Live(sessions[ev.key])

\* C3: a session task that has reached its exit path goes on to remove its
\* key and return.
ExitRemovesKey ==
    \A t \in Tasks : (pc[t] = "exit") ~> (pc[t] = "done")

\* C4: after stop(K), K registered means the call returned true and Close is
\* the newest message of the session's channel, K not registered means it
\* returned false.
StopReturnsRegistered ==
    ev.op = "stop" =>
        IF ev.key \in DOMAIN sessions
        THEN /\ ev.res = "true"
             /\ chan[sessions[ev.key]] # <<>>
             /\ chan[sessions[ev.key]][Len(chan[sessions[ev.key]])] = Close
        ELSE ev.res = "false"

\* C5: no call of Manager::send or Manager::stop waits on a session's channel.
SendNeverWaits ==
    \A t \in Tasks : waitq[t] = <<>>

\* C6: an interaction is enqueued only on the channel registered, at that
\* moment, under the key its custom id starts with; an id without such a
\* key is enqueued nowhere, and no delivery changes the registry or a task.
RoutedToRegistered ==
    [][\A t \in Tasks :
        LET before == PendingOf(chan, waitq, t)
            after == PendingOf(chan', waitq', t)
        IN (Len(after) > Len(before) /\ after[Len(after)].kind = "Interaction") =>
              /\ \E k \in DOMAIN sessions :
                    sessions[k] = t /\ IdNamesKey(after[Len(after)].id, k)
              /\ UNCHANGED <<sessions, taskVars>>]_vars

\* C6 witness: two sessions are live under different keys and the one
\* spawned second has an interaction of its key in its channel
RoutedAmongSessions ==
    \E t, u \in Tasks :
        /\ t < u /\ Live(t) /\ Live(u) /\ key[t] # key[u]
        /\ sessions[key[t]] = t /\ sessions[key[u]] = u
        /\ chan[u] # <<>>
        /\ chan[u][1].kind = "Interaction"
        /\ IdNamesKey(chan[u][1].id, key[u])

\* C7: a live session has at most one round whose message was sent and
\* which is not resolved, and it builds and sends the next round only when
\* every round sent so far is resolved.
RoundsSequential ==
    \A t \in Tasks : Live(t) =>
        /\ rendered[t] - resolved[t] \in {0, 1}
        /\ pc[t] \in {"loop", "send_files"} => rendered[t] = resolved[t]

\* C7 witness: the second round is active after the first was resolved
SecondRoundActive ==
    \E t \in Tasks : pc[t] = "wait" /\ rendered[t] = 2 /\ resolved[t] = 1

\* the flags a selection of a button of the current menu sets: that of the
\* chosen option when it is not the answer, all five when it is
FlagsAfterSelection(t) ==
    (~cur[t].judged /\ cur'[t].judged) =>
        LET id == Head(chan[t]).id
            c == DigitVal(id[Len(id)])
        IN /\ ButtonOf(menu[t], id)
           /\ menu'[t].disabled =
                 IF c = menu[t].answer THEN AllDisabled
                 ELSE [menu[t].disabled EXCEPT ![c + 1] = TRUE]

\* where the round is after the answer to a selection was delivered: Active
\* with its flags as they are, or Resolved when all five are disabled
RoundAfterResponse(t) ==
    (pc[t] = "respond" /\ pc'[t] \notin {"respond", "exit"}) =>
        IF menu[t].disabled = AllDisabled
        THEN pc'[t] = "loop" /\ resolved'[t] = resolved[t] + 1
        ELSE pc'[t] = "wait" /\ resolved'[t] = resolved[t] /\ menu'[t] = menu[t]

\* C8 as stated: a selection of the current round sets the flags, and the
\* round then stays Active (wrong option) or becomes Resolved (answer).
RoundStateMachineAlways ==
    [][\A t \in Tasks :
        /\ FlagsAfterSelection(t)
        /\ RoundAfterResponse(t)
        /\ pc[t] \in {"edit", "respond"} => pc'[t] # "exit"]_vars

\* C8, amended: a selection of the current round sets the flags, and when
\* the message edit and the response are delivered the round stays Active
\* (wrong option) or becomes Resolved (answer).
RoundStateMachine ==
    [][\A t \in Tasks : FlagsAfterSelection(t) /\ RoundAfterResponse(t)]_vars

\* C8 witness: the first round was resolved by its answer, and in the
\* second round a wrong selection was answered: its flag alone is set and
\* the round is Active
WrongAfterResolved ==
    \E t \in Tasks :
        /\ pc[t] = "wait" /\ resolved[t] = 1 /\ rendered[t] = 2
        /\ Cardinality({i \in 1..NumOptions : menu[t].disabled[i]}) = 1
        /\ ~menu[t].disabled[menu[t].answer + 1]

\* C9: a judged selection is correct exactly when the index of the chosen
\* option is the answer index of the menu.
JudgedByIndex ==
    \A t \in Tasks :
        cur[t].judged => (cur[t].correct <=> cur[t].choice = menu[t].answer)

\* C9 witness: an option that carries the text of the answer and is not the
\* answer was selected and judged incorrect
SameTextJudgedWrong ==
    \E t \in Tasks :
        /\ cur[t].judged /\ ~cur[t].correct
        /\ cur[t].choice # menu[t].answer
        /\ menu[t].options[cur[t].choice + 1] = menu[t].options[menu[t].answer + 1]

\* C10: the round loop takes an interaction that is no button of the current
\* menu off the channel and changes nothing else of the session: no flag,
\* no edit, no response, no resolution.  (The wait that follows starts a
\* new timeout.)
StaleDropped ==
    [][\A t \in Tasks :
        (/\ pc[t] = "wait"
         /\ Len(chan'[t]) < Len(chan[t])
         /\ Head(chan[t]).kind = "Interaction"
         /\ ~ButtonOf(menu[t], Head(chan[t]).id)) =>
            /\ chan'[t] = Tail(chan[t])
            /\ UNCHANGED <<sessions, pc, key, plen, idx, menu, cur, exit_reason, status,
                           rendered, resolved>>]_vars

\* C10 witness: the round loop has just skipped an interaction and waits
\* with its menu untouched
StaleSkipped ==
    /\ ev.op = "recv" /\ ev.res = "skipped"
    /\ \E t \in Tasks :
        /\ key[t] = ev.key /\ pc[t] = "wait"
        /\ menu[t].disabled = [i \in 1..NumOptions |-> FALSE]

\* C11: a round does not stay Active for longer than the window without a
\* selection of the current round or a Close, whatever else arrives.
TimeoutWithinWindow ==
    \A t \in Tasks : pc[t] = "wait" => idle[t] <= WindowTicks

ExitReasons == {"PoolExhausted", "Timeout", "NetworkError", "CloseRequest"}

\* C12: a session sends no final status message before it exits and at most
\* one in all; once it has exited it has sent none if it read a Close, and
\* otherwise exactly one, whose text is that of no other exit reason.
FinalStatusMessage ==
    \A t \in Tasks :
        /\ status[t].sent <= 1
        /\ exit_reason[t] \in ExitReasons
        /\ IF pc[t] \notin {"remove", "done"} \/ exit_reason[t] = "CloseRequest"
           THEN status[t] = NoStatus
           ELSE /\ status[t].sent = 1
                /\ status[t].text # ""
                /\ \A r \in ExitReasons \ {exit_reason[t], "CloseRequest"} :
                      ExitText(r).val # status[t].text

\* C12 witness: one session has ended on a Close without a status message,
\* another on a timeout with its status message
ClosedSilentAndTimedOut ==
    \E t, u \in Tasks :
        /\ pc[t] = "done" /\ exit_reason[t] = "CloseRequest" /\ status[t].sent = 0
        /\ pc[u] = "done" /\ exit_reason[u] = "Timeout" /\ status[u].sent = 1
        /\ status[u].text = "Stopping game due to inactivity..."

OutboundCalls == {"send_files", "edit", "respond"}

\* C13: when send_files, the message edit or the response fails, the session
\* of that key has exit reason NetworkError; a session with that exit reason
\* is on its exit path, where it makes none of these calls again, and it
\* sends no further round and keeps the reason.
DeliveryFailureFatal ==
    [][/\ (ev'.op \in OutboundCalls /\ ev'.res = "Err") =>
            \E t \in Tasks : key'[t] = ev'.key /\ exit_reason'[t] = "NetworkError"
       /\ \A t \in Tasks :
            /\ exit_reason'[t] = "NetworkError" => pc'[t] \in {"exit", "remove", "done"}
            /\ exit_reason[t] = "NetworkError" =>
                  /\ exit_reason'[t] = "NetworkError"
                  /\ rendered'[t] = rendered[t]
                  /\ pc'[t] \notin OutboundCalls \cup {"loop", "wait"}]_vars

\* C13 witness: the response to the correct selection has just failed and
\* the session is at its exit with NetworkError
CorrectResponseFailed ==
    /\ ev.op = "respond" /\ ev.res = "Err"
    /\ \E t \in Tasks :
        /\ key[t] = ev.key /\ pc[t] = "exit" /\ exit_reason[t] = "NetworkError"
        /\ cur[t].correct

\* the entry of the lexicon with the id
EntryOf(id) == Lexicon[CHOOSE i \in 1..Len(Lexicon) : Lexicon[i].id = id]

\* a call of Question::new has returned a question
Built == app.op = "Question::new" /\ app.result.some

\* the correct value of an entry in a mode: its first kanji, the first gloss
\* of the first sense with the tag, or the reading paired with that sense
\* (and with the first kanji when the prompt is the kanji)
TargetValue(e, mode, pos) ==
    CASE mode \in {"HirToKan", "EngToKan"} -> e.kanjis[1].text
      [] mode \in {"HirToEng", "KanToEng"} ->
            LET with == {i \in 1..Len(e.senses) :
                             Contains(e.senses[i].pos, pos) /\ e.senses[i].gloss # <<>>}
            IN e.senses[CHOOSE i \in with : \A j \in with : i <= j].gloss[1]
      [] mode = "EngToHir" -> reading_sense_pair(e, pos).val.reading.text
      [] mode = "KanToHir" -> kanji_reading_pair(e, pos).val.reading.text

\* C14: every question Question::new returns, in each of the six modes, has
\* five options and an answer index within 0..4, and the option at the
\* answer index is the correct value of the source entry for the mode.
OptionIntegrity ==
    Built =>
        LET q == app.result.val IN
        /\ Len(q.options) = NumOptions
        /\ q.answer \in 0..(NumOptions - 1)
        /\ q.options[q.answer + 1] = TargetValue(EntryOf(app.entry), app.mode, app.pos)

\* a question from kanji to English whose answer the shuffle moved to the
\* last slot
AnswerMovedByShuffle ==
    /\ Built
    /\ app.mode = "KanToEng"
    /\ app.entry = Cat.id
    /\ app.result.val.answer = NumOptions - 1
    /\ app.result.val.options[NumOptions] = "cat"

\* the values the other entries offer for the call that returned
AlternatesOfCall == Alternates(EntryOf(app.entry), app.mode, app.pos, Lexicon)

\* the elements of a sequence
Range(s) == {s[i] : i \in 1..Len(s)}

\* C15: in every built question for which at least four other entries yield
\* a pair under the tag, the four options other than the answer are pairwise
\* distinct, each is the value of another entry of the lexicon, and none
\* equals the correct value when four distinct other values exist.
DistractorsDistinct ==
    Built /\ Len(AlternatesOfCall) >= NumOptions - 1 =>
        LET q == app.result.val
            target == q.options[q.answer + 1]
            others == (1..NumOptions) \ {q.answer + 1}
        IN /\ \A i, j \in others : i # j => q.options[i] # q.options[j]
           /\ \A i \in others : q.options[i] \in Range(AlternatesOfCall)
           /\ Cardinality(Range(AlternatesOfCall) \ {target}) >= NumOptions - 1 =>
                  \A i \in others : q.options[i] # target

\* C16: a question whose target is a kana reading (English to kana, kanji
\* to kana), built when fewer than four other entries yield a pair under
\* the tag, still carries five options that are not empty.
ScarceAlternatesPadded ==
    /\ Built
    /\ app.mode \in {"EngToHir", "KanToHir"}
    /\ Len(AlternatesOfCall) < NumOptions - 1
    => \A i \in 1..NumOptions : app.result.val.options[i] # ""

\* the entry has a reading or a kanji tagged with one of the levels
TaggedWith(e, levels) ==
    \/ \E i \in 1..Len(e.readings) : Range(e.readings[i].levels) \cap levels # {}
    \/ \E i \in 1..Len(e.kanjis) : Range(e.kanjis[i].levels) \cap levels # {}

\* the entry has a sense with one of the parts of speech
HasPos(e, pos) == \E i \in 1..Len(e.senses) : Range(e.senses[i].pos) \cap pos # {}

SampleEmpty ==
    /\ app.op = "sample"
    /\ app.levels = {"N3"}
    /\ app.pos = {"V1"}
    /\ app.result = <<>>

\* C18: the round loop tries Question::new on a sampled entry with each
\* allowed tag in the shuffled order.  When every tag yields None the entry
\* is skipped: the task stays in the loop at the next entry, nothing is
\* sent, nothing is taken from the control channel, and the exit reason is
\* as it was.  Otherwise the menu is built from the question of the first
\* tag in that order that yields one.  Every step the loop takes on an
\* entry is one of the two.
ExtractionFailureSkips ==
    [][/\ \A t \in Tasks :
            (pc[t] = "loop" /\ idx[t] < plen[t] /\ <<pc'[t], idx'[t]>> # <<pc[t], idx[t]>>)
                => ev'.op = "round" /\ ev'.task = t
       /\ ev'.op = "round" =>
            LET t == ev'.task
                e == ev'.entry
                o == ev'.order
            IN /\ Len(o) = Len(env.pos) /\ Range(o) = Range(env.pos)
               /\ ev'.res = "skipped" <=> \A i \in 1..Len(o) : ~e[o[i]].some
               /\ ev'.res = "skipped" =>
                    /\ pc'[t] = "loop" /\ idx'[t] = idx[t] + 1
                    /\ exit_reason' = exit_reason /\ rendered' = rendered
                    /\ status' = status /\ menu' = menu
                    /\ chan' = chan /\ waitq' = waitq /\ sessions' = sessions
               /\ ev'.res # "skipped" =>
                    \E i \in 1..Len(o) :
                        /\ e[o[i]].some
                        /\ \A j \in 1..(i - 1) : ~e[o[j]].some
                        /\ menu'[t].options = e[o[i]].val.options
                        /\ menu'[t].answer = e[o[i]].val.answer
                        /\ pc'[t] = "send_files" /\ idx'[t] = idx[t]
                        /\ exit_reason' = exit_reason
      ]_vars

\* after a round was rendered and answered, the next entry yields no
\* question under either tag and is skipped
EntrySkippedAfterRound ==
    /\ ev.op = "round" /\ ev.res = "skipped"
    /\ Len(ev.order) > 1
    /\ rendered[ev.task] >= 1
    /\ pc[ev.task] = "loop"
    /\ exit_reason[ev.task] = "PoolExhausted"

\* the first tag tried yields nothing and the question of the second is
\* rendered
SecondTagBuilds ==
    /\ ev.op = "round" /\ ev.res = "built"
    /\ Len(ev.order) > 1
    /\ ~ev.entry[ev.order[1]].some
    /\ pc[ev.task] = "send_files"

\* C19: under fair scheduling, with every outbound call returning, every
\* session task that was started returns, its key removed.
SessionsTerminate ==
    \A t \in Tasks : Live(t) ~> (pc[t] = "done")

\* C20: a call of stop changes nothing of a session task.  The exit reason
\* becomes CloseRequest only in the step in which the task, waiting in a
\* round, takes Close from the head of its control channel; a task at an
\* outbound call goes on as the call's result tells.  A task that finds its pool exhausted leaves
\* the loop with its exit reason as it was, and with PoolExhausted it
\* announces the exhausted pool, whatever its channel holds.
CloseAdvisory ==
    [][/\ ev'.op = "stop" => taskVars' = taskVars
       /\ \A t \in Tasks :
            /\ (exit_reason'[t] = "CloseRequest" /\ exit_reason[t] # "CloseRequest") =>
                    /\ pc[t] = "wait"
                    /\ chan[t] # <<>> /\ Head(chan[t]) = Close
                    /\ chan'[t] = Tail(chan[t])
            /\ (pc[t] \in OutboundCalls /\ pc'[t] # pc[t]) =>
                    /\ pc'[t] \in {"wait", "respond", "loop", "exit"}
                    /\ pc'[t] = "exit" => exit_reason'[t] = "NetworkError"
                    /\ exit_reason'[t] # "CloseRequest"
            /\ (pc[t] = "loop" /\ idx[t] = plen[t] /\ pc'[t] # "loop") =>
                    pc'[t] = "exit" /\ exit_reason'[t] = exit_reason[t]
            /\ (pc[t] = "exit" /\ pc'[t] # "exit" /\ exit_reason[t] = "PoolExhausted") =>
                    /\ status'[t].sent = 1
                    /\ status'[t].text = "There are no more words left in the pool"
      ]_vars

\* a session that answered its last round has announced the exhausted pool,
\* with the Close of a stop that returned true unread in its channel
PoolExhaustedDespiteClose ==
    \E t \in Tasks :
        /\ pc[t] = "remove"
        /\ exit_reason[t] = "PoolExhausted"
        /\ rendered[t] >= 1 /\ resolved[t] >= 1
        /\ status[t].sent = 1
        /\ status[t].text = "There are no more words left in the pool"
        /\ \E i \in 1..Len(chan[t]) : chan[t][i] = Close

\* a sender waits for capacity on the channel of a session of key k
SenderWaitsOn(k) == \E u \in Tasks : key[u] = k /\ waitq[u] # <<>>

\* C21: what a session of another key does cannot keep a session from
\* deregistering: a task that has reached sessions.remove returns, unless a
\* sender waits on a channel of its own key.
IndependentProgress ==
    \A t \in Tasks :
        (pc[t] = "remove") ~> (pc[t] = "done" \/ SenderWaitsOn(key[t]))

\* a call of scramble has returned
Scrambled == app.op = "scramble"

\* b can stand where the reading has a: the same character, or one of the
\* same chart that shares its row or its column of the grid, or another
\* glide of its size, or the other character of the wa column
MayReplace(a, b) ==
    \/ b = a
    \/ /\ b # a /\ b[1] = a[1]
       /\ \/ a \in GridKana /\ b \in GridKana /\ (b[2] = a[2] \/ b[3] = a[3])
          \/ a \in GlideKana /\ b \in GlideKana /\ b[2] = a[2]
          \/ a \in WaKana /\ b \in WaKana

\* C22: scramble(R) has as many characters as R, each of them the character
\* of R at its position or a member of that character's swap pool, and a
\* character without a swap pool is unchanged.
ScrambleKeepsShape ==
    Scrambled =>
        /\ Len(app.result) = Len(app.reading)
        /\ \A i \in 1..Len(app.reading) :
            /\ MayReplace(app.reading[i], app.result[i])
            /\ (\A b \in Kana : b # app.reading[i] => ~MayReplace(app.reading[i], b))
                   => app.result[i] = app.reading[i]

\* a scramble of five characters: the two n are kept, and of the three
\* others one is kept and two are swapped
PartlyScrambled ==
    /\ Scrambled
    /\ Len(app.reading) = 5
    /\ Cardinality({i \in 1..5 : app.result[i] # app.reading[i]}) = 2
    /\ app.result[4] = Nn /\ app.result[5] = Nn

\* C23: for a reading of fewer than 4 characters, or with fewer than 60% of
\* its characters swappable, every swappable character of the scramble
\* differs from the reading's character at its position.
ScrambleAggressive ==
    (/\ Scrambled
     /\ \/ Len(app.reading) < 4
        \/ 100 * Cardinality({i \in 1..Len(app.reading) :
                                  \E b \in Kana : b # app.reading[i]
                                                  /\ MayReplace(app.reading[i], b)})
               < 60 * Len(app.reading))
    => \A i \in 1..Len(app.reading) :
           (\E b \in Kana : b # app.reading[i] /\ MayReplace(app.reading[i], b))
               => app.result[i] # app.reading[i]

\* a reading of four characters, one of them swappable, and that one swapped
LongReadingFullySwapped ==
    /\ Scrambled
    /\ Len(app.reading) = 4
    /\ app.reading[2] = Nn /\ app.reading[3] = Nn /\ app.reading[4] = Nn
    /\ app.result[1] # app.reading[1]

\* C24: a distractor is made with at most 1000 scrambles of the whole
\* string; it is a scramble of the reading that differs from every option
\* chosen before, or, after 1000 attempts that all collided, the fixed
\* placeholder: making it never fails.
CollisionFallback ==
    [][app'.op = "distractor" =>
         /\ app'.attempts <= 1000
         /\ app'.result.some =>
              \/ /\ app'.result.val \notin app'.chosen
                 /\ Len(app'.result.val) = Len(app'.reading)
                 /\ \A i \in 1..Len(app'.reading) :
                        MayReplace(app'.reading[i], app'.result.val[i])
              \/ app'.result.val = Sentinel /\ app'.attempts = 1000
         /\ (app.op = "distractor" /\ app.attempts = 1000 /\ ~app.result.some) =>
              app'.result.some
      ]_vars

\* the placeholder was used after a thousand collisions
SentinelUsed ==
    /\ app.op = "distractor"
    /\ app.attempts = 1000
    /\ app.result.some /\ app.result.val = Sentinel

\* the registry names, under every registered key, a live task of that key,
\* and every live task is registered under its key
RegistryMatchesTasks ==
    /\ \A k \in DOMAIN sessions : key[sessions[k]] = k /\ Live(sessions[k])
    /\ \A t \in Tasks : Live(t) => key[t] \in DOMAIN sessions /\ sessions[key[t]] = t

\* C25: a key is registered exactly while a session task of that key has
\* started and has not executed sessions.remove, the stored Sender is that of
\* this task, and sessions.remove of a task removes no registration of
\* another task.
RegistryConsistent ==
    /\ RegistryMatchesTasks
    /\ [][/\ RegistryMatchesTasks'
          /\ \A k \in DOMAIN sessions :
                k \notin DOMAIN sessions' => pc[sessions[k]] = "remove" /\ pc'[sessions[k]] = "done"]_vars

\* a stop of the session of task t has returned true: its Close is buffered
\* on the control channel of t
CloseBuffered(t) == \E i \in 1..Len(chan[t]) : chan[t][i] = Close

\* s is t with messages appended
Extends(s, t) == Len(s) >= Len(t) /\ SubSeq(s, 1, Len(t)) = t

\* the control channels are queues: a step appends to a channel, or the
\* task waiting in a round takes its head, or the returning task drops it
ControlFifo ==
    [][\A t \in Tasks :
          \/ Extends(chan'[t], chan[t])
          \/ pc[t] = "wait" /\ chan[t] # <<>> /\ chan'[t] = Tail(chan[t])
          \/ pc'[t] = "done" /\ chan'[t] = <<>>]_vars

\* from the return of stop on, the session renders at most one round
RoundsAfterStop ==
    \A t \in Tasks, n \in 0..MaxPool :
        [](CloseBuffered(t) /\ rendered[t] = n => [](rendered[t] <= n + 1))

\* the messages buffered ahead of the first Close of the channel of task t
AheadOfClose(t) ==
    LET c == CHOOSE i \in 1..Len(chan[t]) :
                 chan[t][i] = Close /\ \A j \in 1..(i - 1) : chan[t][j] # Close
    IN SubSeq(chan[t], 1, c - 1)

\* the session of task t renders no further round: it has left its round
\* loop, or it waits in a round none of whose selections is buffered ahead
\* of a Close
Sealed(t) ==
    \/ pc[t] \in {"exit", "remove", "done"}
    \/ /\ pc[t] = "wait"
       /\ CloseBuffered(t)
       /\ \A i \in 1..Len(AheadOfClose(t)) :
              ~Selection(menu[t], AheadOfClose(t)[i].id).some

\* the same bound step by step: a round rendered with a Close buffered
\* seals the session, and a sealed session stays sealed and renders nothing
StopBoundsRounds ==
    [][\A t \in Tasks :
          /\ (CloseBuffered(t) /\ rendered'[t] # rendered[t]) => Sealed(t)'
          /\ Sealed(t) => Sealed(t)' /\ rendered'[t] = rendered[t]]_vars

\* from the return of stop on, the session task comes to its end
StopTerminates ==
    \A t \in Tasks : CloseBuffered(t) ~> (pc[t] = "done")

\* C26: the control messages of a session are consumed in the order they
\* were enqueued, and once stop has returned true the session renders at
\* most one further round and then terminates, every outbound call returning.
StopBounded ==
    /\ ControlFifo
    /\ StopBoundsRounds
    /\ StopTerminates

\* the round of task t is Active: the task waits for an event of the round,
\* or answers the selection of an option that is not the answer
Active(t) ==
    \/ pc[t] = "wait"
    \/ pc[t] \in {"edit", "respond"} /\ ~cur[t].correct

\* C27: within a round no disabled flag goes back from true to false; the
\* answer option is enabled in every state in which the round is Active; and
\* the selection of an option that is already disabled leaves all five flags
\* as they are.
RoundFlags ==
    /\ \A t \in Tasks : Active(t) => ~menu[t].disabled[menu[t].answer + 1]
    /\ [][\A t \in Tasks :
            /\ (menu[t] # NoMenu /\ menu'[t].id = menu[t].id) =>
                    \A i \in 1..NumOptions : menu[t].disabled[i] => menu'[t].disabled[i]
            /\ (~cur[t].judged /\ cur'[t].judged
                    /\ menu[t].disabled[DigitVal(Head(chan[t]).id[Len(Head(chan[t]).id)]) + 1]) =>
                    menu'[t].disabled = menu[t].disabled]_vars

\* C27 witness: the session has just received, in an Active round, the
\* selection of the wrong option it had disabled before; that flag alone is
\* set and the answer is enabled
DisabledSelectedAgain ==
    /\ ev.op = "recv" /\ ev.res = "repeated"
    /\ \E t \in Tasks :
        /\ key[t] = ev.key
        /\ pc[t] = "edit" /\ cur[t].judged /\ ~cur[t].correct
        /\ menu[t].disabled = [i \in 1..NumOptions |-> i = cur[t].choice + 1]
        /\ ~menu[t].disabled[menu[t].answer + 1]

\* the text after the last comma of a string (the string when it has none)
LastField(s) ==
    LET commas == {i \in 1..Len(s) : s[i] = ","} IN
    IF commas = {} THEN s
    ELSE SubSeq(s, (CHOOSE i \in commas : \A j \in commas : j <= i) + 1, Len(s))

\* C28: the id '<m>,<i>' of option i of the round m = '<s>,<uuid>' is parsed
\* by parse_custom_id to (m, i) and by parse_session_id to s; the five ids
\* of a round differ from each other; and parse_custom_id rejects an id
\* whose last field is not one digit 0 to 4.
IdRoundTrip ==
    /\ app.op = "Menu::new" =>
          \A i, j \in 1..NumOptions : app.questions[i] = app.questions[j] => i = j
    /\ app.op = "parse" =>
          LET m == FmtNat(app.session_id) \o <<",">> \o app.uuid IN
          /\ \A i \in 0..4 :
                app.custom_id = m \o <<",", DigitChars[i + 1]>> =>
                    /\ app.custom = Some([menu_id |-> m, choice |-> i])
                    /\ app.session = Some(app.session_id)
          /\ LastField(app.custom_id) \notin {<<DigitChars[i + 1]>> : i \in 0..4} =>
                ~app.custom.some

\* C28 witness: the id of the last button of a round of guild 12, whose
\* uuid starts with a digit, was parsed to its menu id, its index and its key
LastButtonParsed ==
    /\ app.op = "parse"
    /\ app.session_id = 12 /\ app.uuid[1] \in AsciiDigits
    /\ app.custom_id = <<"1", "2", ",">> \o app.uuid \o <<",", "4">>
    /\ app.custom.some /\ app.custom.val.choice = 4
    /\ app.session = Some(12)

\* an id whose last field has two digits was rejected
TwoDigitFieldRejected ==
    /\ app.op = "parse"
    /\ LastField(app.custom_id) = <<"1", "4">>
    /\ ~app.custom.some

\* C29: the identifier of a round that is built differs from that of the
\* current round of every other session and from that of every event of an
\* earlier round still buffered on a channel, and it starts with the key of
\* its session; an event is accepted only by the task of the key it names,
\* waiting in the round whose button it is.
RoundIdsFresh ==
    /\ \A t, u \in Tasks :
          (t # u /\ menu[t] # NoMenu /\ menu[u] # NoMenu) => menu[t].id # menu[u].id
    /\ \A t \in Tasks :
          menu[t] # NoMenu =>
              /\ IdNamesKey(menu[t].id, key[t])
              /\ parse_session_id(menu[t].id) = Some(key[t])
    /\ [][\A t \in Tasks :
            /\ (menu[t] = NoMenu /\ menu'[t] # NoMenu) =>
                  \A u \in Tasks : \A i \in 1..Len(Pending(u)) :
                      ~ButtonOf(menu'[t], Pending(u)[i].id)
            /\ (~cur[t].judged /\ cur'[t].judged) =>
                  /\ pc[t] = "wait"
                  /\ ButtonOf(menu[t], Head(chan[t]).id)
                  /\ IdNamesKey(Head(chan[t]).id, key[t])]_vars

\* C29 witness: the second round of a session has been built and rendered
\* under a new identifier while a press of a button of its first round is
\* still buffered on its channel
FreshWhilePending ==
    \E t \in Tasks :
        /\ pc[t] = "wait" /\ rendered[t] = 2 /\ menu[t] # NoMenu
        /\ chan[t] # <<>>
        /\ Head(chan[t]).kind = "Interaction"
        /\ IdNamesKey(Head(chan[t]).id, key[t])
        /\ parse_custom_id(Head(chan[t]).id).some
        /\ ~ButtonOf(menu[t], Head(chan[t]).id)

\* the sampled pool of task t yielded no question: the pool is consumed
\* (an empty sample at once) and no round was rendered
UnusablePool(t) == pc[t] = "loop" /\ idx[t] = plen[t] /\ rendered[t] = 0

\* task t is on its way out with PoolExhausted and without a round
ExhaustedUnrendered(t) ==
    /\ rendered[t] = 0
    /\ exit_reason[t] = "PoolExhausted"
    /\ UnusablePool(t) \/ pc[t] \in {"exit", "remove", "done"}

\* a task waits on its control channel only in a round it has rendered, and
\* a session whose pool yielded no question goes from the loop to its exit
\* without a round, sending the pool-exhausted message once
UnusablePoolSilent ==
    /\ \A t \in Tasks : pc[t] \in {"wait", "edit", "respond"} => rendered[t] >= 1
    /\ [][\A t \in Tasks :
            ExhaustedUnrendered(t) =>
                /\ ExhaustedUnrendered(t)'
                /\ IF pc[t] = "exit" /\ pc'[t] # "exit"
                   THEN /\ status[t].sent = 0 /\ status'[t].sent = 1
                        /\ status'[t].text = "There are no more words left in the pool"
                   ELSE status'[t] = status[t]]_vars

\* a session whose pool yielded no question deregisters its key
UnusablePoolDeregisters ==
    \A t \in Tasks : UnusablePool(t) ~> (pc[t] = "done" /\ status[t].sent = 1)

\* C30: a session whose sample is empty, or none of whose sampled entries
\* yields a question, renders no round and never waits on its control
\* channel; it sends the pool-exhausted message once and removes its key.
UnusablePoolEnds ==
    /\ UnusablePoolSilent
    /\ UnusablePoolDeregisters

\* task t is in a round: the entry at idx[t] is in use
InRound(t) == pc[t] \in {"wait", "edit", "respond"}

\* C31: the pool of a session is sampled once; every round uses an entry of
\* its own, so the rounds rendered never exceed the entries consumed (with
\* the one in use) nor the pool; the number a round is rendered under is the
\* 1-based position of its entry in the pool, and an entry that is skipped
\* or whose round was resolved consumes its position.
PoolNumbering ==
    /\ \A t \in Tasks :
          Live(t) =>
              /\ rendered[t] <= idx[t] + (IF InRound(t) THEN 1 ELSE 0)
              /\ idx[t] <= plen[t]
              /\ rendered[t] <= plen[t]
    /\ [][\A t \in Tasks :
            /\ (Live(t) /\ pc'[t] # "done") => plen'[t] = plen[t] /\ idx'[t] >= idx[t]
            /\ (ev'.op = "round" /\ ev'.task = t /\ ev'.res = "skipped") =>
                    idx'[t] = idx[t] + 1
            /\ (pc[t] = "respond" /\ pc'[t] = "loop") => idx'[t] = idx[t] + 1
            /\ rendered'[t] # rendered[t] =>
                    /\ rendered'[t] = rendered[t] + 1
                    /\ ev'.op = "render" /\ ev'.key = key[t]
                    /\ ev'.res = idx[t] + 1
                    /\ ev'.res >= rendered'[t] /\ ev'.res <= plen[t]]_vars

\* C31 witness: the first round of a session was rendered as Question 2,
\* its first entry having yielded no question
SkippedConsumesNumber ==
    /\ ev.op = "render" /\ ev.res = 2
    /\ \E t \in Tasks : key[t] = ev.key /\ pc[t] = "wait" /\ rendered[t] = 1 /\ idx[t] = 1

\* the least member of a non-empty set of positions
Least(S) == CHOOSE i \in S : \A j \in S : i <= j

\* sense s admits reading r: it names no reading, or names r
Admits(s, r) ==
    s.relevant_reading = <<>> \/ \E i \in 1..Len(s.relevant_reading) : s.relevant_reading[i] = r.text

\* reading r belongs to kanji k: it names no kanji, or names k
BelongsTo(r, k) ==
    r.relevant_to = <<>> \/ \E i \in 1..Len(r.relevant_to) : r.relevant_to[i] = k.text

\* the positions of the senses of e that carry pos (and, if asked, a gloss)
SensesWith(e, pos, glossed) ==
    {i \in 1..Len(e.senses) :
        /\ \E j \in 1..Len(e.senses[i].pos) : e.senses[i].pos[j] = pos
        /\ glossed => e.senses[i].gloss # <<>>}

\* C32: reading_sense_pair returns a pair exactly when the first sense that
\* carries the tag and has a gloss admits some reading, and then that sense
\* with the first reading it admits.  kanji_reading_pair returns the first
\* kanji with the first reading that belongs to it and that the first sense
\* carrying the tag admits, and None when there is no kanji, no such sense
\* or no such reading.  kanji_sense_pair returns the first kanji with the
\* first sense that carries the tag and has a gloss.
PairExtraction ==
    app.op = "pair" =>
        LET e == app.entry
            glossed == SensesWith(e, app.pos, TRUE)
            tagged == SensesWith(e, app.pos, FALSE)
        IN
        /\ app.f = "reading_sense_pair" =>
              LET adm == IF glossed = {} THEN {}
                         ELSE {j \in 1..Len(e.readings) : Admits(e.senses[Least(glossed)], e.readings[j])}
              IN /\ app.result.some <=> adm # {}
                 /\ app.result.some =>
                       /\ app.result.val.sense = e.senses[Least(glossed)]
                       /\ app.result.val.reading = e.readings[Least(adm)]
        /\ app.f = "kanji_reading_pair" =>
              LET adm == IF tagged = {} \/ e.kanjis = <<>> THEN {}
                         ELSE {j \in 1..Len(e.readings) :
                                  /\ BelongsTo(e.readings[j], e.kanjis[1])
                                  /\ Admits(e.senses[Least(tagged)], e.readings[j])}
              IN /\ app.result.some <=> adm # {}
                 /\ app.result.some =>
                       /\ app.result.val.kanji = e.kanjis[1]
                       /\ app.result.val.reading = e.readings[Least(adm)]
        /\ app.f = "kanji_sense_pair" =>
              /\ app.result.some <=> (glossed # {} /\ e.kanjis # <<>>)
              /\ app.result.some =>
                    /\ app.result.val.kanji = e.kanjis[1]
                    /\ app.result.val.sense = e.senses[Least(glossed)]

\* C32 witness: reading_sense_pair returned None for an entry whose first
\* glossed sense with the tag names a reading the entry lacks, though its
\* second such sense admits a reading
FirstSenseDecides ==
    /\ app.op = "pair" /\ app.f = "reading_sense_pair"
    /\ ~app.result.some
    /\ Cardinality(SensesWith(app.entry, app.pos, TRUE)) = 2
    /\ app.entry.readings # <<>>
    /\ app.entry.senses[2].relevant_reading = <<>>

\* kanji_reading_pair passed over the first reading, which belongs to
\* another kanji, and returned the second
SecondReadingPaired ==
    /\ app.op = "pair" /\ app.f = "kanji_reading_pair"
    /\ app.result.some
    /\ Len(app.entry.readings) = 2
    /\ app.result.val.reading = app.entry.readings[2]
    /\ app.entry.readings[1].relevant_to # <<>>

\* C33: a create-game form calls Manager::start_game at most once, in
\* handling the first press of its submit button; a later press is answered
\* 'Game has already been created', or ends the form when the answer is not
\* delivered, and starts nothing, also after a start that was refused.
FormStartsOnce ==
    /\ app.op = "form" => app.calls <= 1 /\ (app.calls = 1 => app.submitted /\ app.presses >= 1)
    /\ [][(app.op = "form" /\ app'.op = "form") =>
            /\ app'.calls # app.calls => app.presses = 0 /\ app'.presses = 1
            /\ (app'.presses # app.presses /\ app.presses >= 1) =>
                  /\ app'.calls = app.calls /\ app'.started = app.started
                  /\ app'.answer = "Game has already been created" \/ ~app'.live]_vars

\* C33 witness: the second press of the submit button, after a start that
\* was refused, has been answered and no second start was made
SecondPressAfterRefusal ==
    /\ app.op = "form" /\ app.presses = 2 /\ app.live
    /\ app.started = "Err" /\ app.calls = 1
    /\ app.answer = "Game has already been created"

\* a sequence without repeated items
NoRepeats(s) == \A i, j \in 1..Len(s) : s[i] = s[j] => i = j

\* the items of a sequence
ItemsOf(s) == {s[i] : i \in 1..Len(s)}

\* C34: a second add_level with the same arguments changes nothing.  A call
\* changes nothing when the entry has no reading of that text or when the
\* first such reading carries the level; otherwise it appends the level to
\* that reading alone and to every kanji that lacks it, among the kanji the
\* reading names when it names any.  On entries that started without
\* levels no level list repeats a level, and every level of a kanji is a
\* level of some reading of its entry.
AddLevelContract ==
    /\ app.op = "combine" =>
          \A n \in 1..Len(app.entries) :
              LET e == app.entries[n] IN
              /\ \A i \in 1..Len(e.readings) : NoRepeats(e.readings[i].levels)
              /\ \A k \in 1..Len(e.kanjis) :
                    /\ NoRepeats(e.kanjis[k].levels)
                    /\ ItemsOf(e.kanjis[k].levels) \subseteq
                          UNION {ItemsOf(e.readings[i].levels) : i \in 1..Len(e.readings)}
    /\ (app.op = "combine" /\ app.last.f = "add_level") =>
          LET b == app.last.before[app.last.i]
              a == app.entries[app.last.i]
              h == app.last.hiragana
              l == app.last.level
              hits == {i \in 1..Len(b.readings) : b.readings[i].text = h}
          IN /\ app.last.again = a
             /\ \A n \in 1..Len(app.entries) : n # app.last.i => app.entries[n] = app.last.before[n]
             /\ IF hits = {} \/ l \in ItemsOf(b.readings[Least(hits)].levels)
                THEN a = b
                ELSE LET r == Least(hits) IN
                     /\ a.id = b.id /\ a.senses = b.senses
                     /\ Len(a.readings) = Len(b.readings) /\ Len(a.kanjis) = Len(b.kanjis)
                     /\ \A i \in 1..Len(b.readings) :
                           a.readings[i] =
                              IF i = r THEN [b.readings[i] EXCEPT !.levels = Append(@, l)]
                              ELSE b.readings[i]
                     /\ \A k \in 1..Len(b.kanjis) :
                           a.kanjis[k] =
                              IF /\ l \notin ItemsOf(b.kanjis[k].levels)
                                 /\ \/ b.readings[r].relevant_to = <<>>
                                    \/ b.kanjis[k].text \in ItemsOf(b.readings[r].relevant_to)
                              THEN [b.kanjis[k] EXCEPT !.levels = Append(@, l)]
                              ELSE b.kanjis[k]

\* C34 witness: add_level for a reading that names one kanji has annotated
\* that kanji and left the entry's other kanji without a level
NamedKanjiAnnotated ==
    /\ app.op = "combine" /\ app.last.f = "add_level"
    /\ app.last.i = 5 /\ app.last.hiragana = "asu"
    /\ app.entries[5].readings[1].levels = <<app.last.level>>
    /\ app.entries[5].kanjis[1].levels = <<app.last.level>>
    /\ app.entries[5].kanjis[2].levels = <<>>

\* add_level was called again with the same arguments and changed nothing
AddLevelRepeated ==
    /\ app.op = "combine" /\ app.last.f = "add_level"
    /\ app.last.before = app.entries
    /\ app.last.level \in ItemsOf(app.entries[1].readings[1].levels)
    /\ app.last.i = 1 /\ app.last.hiragana = "hashi"

\* of two readings of one text the first alone was annotated
FirstOfTwoAnnotated ==
    /\ app.op = "combine" /\ app.last.f = "add_level" /\ app.last.i = 8
    /\ app.entries[8].readings[1].levels # <<>>
    /\ app.entries[8].readings[2].levels = <<>>

\* the merge has emitted its output
Emitted == app # NoApp /\ app.op = "combine" /\ app.out.some

\* C35: in the output of the merge every entry is annotated, has at least
\* one reading, and keeps only readings and kanji that carry a level; an
\* annotated entry of the dictionary is emitted once, under its id, with its
\* senses and its annotated readings and kanji; an entry without an
\* annotated reading or kanji is not emitted.
MergeOutput ==
    Emitted =>
        LET out == app.out.val
            entries == app.entries
        IN /\ \A id \in DOMAIN out :
                LET e == out[id] IN
                /\ e.id = id
                /\ is_annotated(e)
                /\ e.readings # <<>>
                /\ \A r \in 1..Len(e.readings) : e.readings[r].levels # <<>>
                /\ \A k \in 1..Len(e.kanjis) : e.kanjis[k].levels # <<>>
           /\ \A i \in 1..Len(entries) :
                LET e == entries[i]
                    marked == \/ \E r \in 1..Len(e.readings) : e.readings[r].levels # <<>>
                              \/ \E k \in 1..Len(e.kanjis) : e.kanjis[k].levels # <<>>
                IN IF marked
                   THEN /\ e.id \in DOMAIN out
                        /\ out[e.id].senses = e.senses
                        /\ ItemsOf(out[e.id].readings)
                             = {r \in ItemsOf(e.readings) : r.levels # <<>>}
                        /\ ItemsOf(out[e.id].kanjis)
                             = {k \in ItemsOf(e.kanjis) : k.levels # <<>>}
                   ELSE e.id \notin DOMAIN out
           /\ Cardinality(DOMAIN out)
                = Cardinality({i \in 1..Len(entries) : is_annotated(entries[i])})

\* an entry with two readings and two kanji is emitted with the one reading
\* and the one kanji that were annotated, while entries stay behind
MergeTrimmed ==
    /\ Emitted
    /\ 5 \in DOMAIN app.out.val
    /\ Len(app.entries[5].readings) = 2 /\ Len(app.entries[5].kanjis) = 2
    /\ Len(app.out.val[5].readings) = 1 /\ Len(app.out.val[5].kanjis) = 1
    /\ 6 \notin DOMAIN app.out.val

\* an entry reached under two keys of the map is emitted once, whole
MergeTwoKeys ==
    /\ Emitted
    /\ 5 \in DOMAIN app.out.val
    /\ Len(app.out.val[5].readings) = 2

\* annotated_dict has just taken a JlptEntry
Annotated == app # NoApp /\ app.op = "combine" /\ app.last.f = "annotate"

\* the entries (by position) read as the text before the last JlptEntry
Candidates ==
    {i \in 1..Len(app.last.before) :
        \E r \in 1..Len(app.last.before[i].readings) :
            app.last.before[i].readings[r].text = app.last.jlpt.hiragana}

\* the candidates the rule for the last JlptEntry retains: all of them when
\* there is one, those written with the kanji it names, or those without
\* kanji when it names none
Retained ==
    IF Cardinality(Candidates) = 1 THEN Candidates
    ELSE IF app.last.jlpt.kanji.some
    THEN {i \in Candidates :
            \E k \in 1..Len(app.last.before[i].kanjis) :
                app.last.before[i].kanjis[k].text = app.last.jlpt.kanji.val}
    ELSE {i \in Candidates : app.last.before[i].kanjis = <<>>}

\* entry i is as before but for the level of the last JlptEntry, which its
\* first reading of that text carries
AnnotatedAt(i) ==
    LET e == app.entries[i]
        j == app.last.jlpt
        hits == {r \in 1..Len(e.readings) : e.readings[r].text = j.hiragana}
    IN /\ hits # {}
       /\ Contains(e.readings[Least(hits)].levels, j.level)
       /\ e = add_level(app.last.before[i], j.hiragana, j.level)

\* C36: a JlptEntry annotates the one dictionary entry its rule retains (the
\* only entry read as its hiragana; failing that the only candidate written
\* with the kanji it names, or the only candidate without kanji when it
\* names none) and leaves every other entry as it was; when the rule does
\* not retain exactly one candidate, every entry is as it was.
JlptDisambiguation ==
    Annotated =>
        IF Cardinality(Retained) = 1
        THEN \A i \in 1..Len(app.entries) :
                IF i \in Retained THEN AnnotatedAt(i)
                ELSE app.entries[i] = app.last.before[i]
        ELSE app.entries = app.last.before

\* a JlptEntry changes at most one entry
JlptAtMostOne ==
    Annotated =>
        Cardinality({i \in 1..Len(app.entries) : app.entries[i] # app.last.before[i]}) <= 1

\* no entry lists the text of the last JlptEntry twice
ListedOnce ==
    \A i \in Candidates :
        Cardinality({r \in 1..Len(app.last.before[i].readings) :
                        app.last.before[i].readings[r].text = app.last.jlpt.hiragana}) = 1

\* the rules hold of every JlptEntry whose text no entry lists twice
JlptDisambiguationListedOnce ==
    Annotated /\ ListedOnce =>
        IF Cardinality(Retained) = 1
        THEN \A i \in 1..Len(app.entries) :
                IF i \in Retained THEN AnnotatedAt(i)
                ELSE app.entries[i] = app.last.before[i]
        ELSE app.entries = app.last.before

\* the kanji named singles out one of four candidates, which is annotated
KanjiSinglesOut ==
    /\ Annotated
    /\ Cardinality(Candidates) = 4
    /\ app.last.jlpt.kanji.some
    /\ Retained = {1}
    /\ app.entries[1] # app.last.before[1]

\* the only entry read as the text lists it twice and stays without level
SoleCandidateSkipped ==
    /\ Annotated
    /\ Candidates = {8}
    /\ app.last.before[8].readings[1].levels = <<>>
    /\ app.entries = app.last.before

====
